---- MODULE Spec2Model ----
(***************************************************************************)
(* Thermal asymmetry analysis engine of the termografia repository:        *)
(*   core/thermal_analyzer.py     ThermalAnalyzer   (paired asymmetry)      *)
(*   core/multipoint_analyzer.py  MultiPointAnalyzer (matrix and groups)    *)
(*   core/hotspot_detector.py     HotspotDetector   (hot regions)           *)
(*                                                                         *)
(* Numbers.  Temperatures are Python floats; here they are exact decimal   *)
(* fixed point, in hundredths of a degree Celsius (34.5 C is 3450).  The   *)
(* differences taken by the code are between temperatures within a factor  *)
(* of two of each other, for which the floating-point subtraction is exact, *)
(* so a difference is the integer difference.  A confidence is kept in     *)
(* millionths until round(.., 2) turns it into hundredths.                 *)
(***************************************************************************)
EXTENDS Integers, Sequences, FiniteSets, TLC

VARIABLES
    \* ---- ThermalAnalyzer ----
    left_temp,          \* argument of analyze_asymmetry
    right_temp,         \* argument of analyze_asymmetry
    dermatome,          \* argument of analyze_asymmetry (None when omitted)
    analysis_history,   \* self.analysis_history
    asym_return,        \* <<>> before any call, <<r>> after a call returned r
    asym_calls,         \* how many calls of analyze_asymmetry were made
    last_call,          \* the analyzer method called last: "none" before any call
    region_temps,       \* argument of analyze_btt: region name -> temperature
    headache_info,      \* argument of analyze_btt: <<>> for None, <<d>> for a dict d
    btt_return,         \* <<>>, or <<r>> once analyze_btt returned the BTTResult r
    thermal_data,       \* argument of the ROI statistics: the pixels of the frame
    roi_mask,           \* argument of the ROI statistics: the mask, pixel by pixel
    stats_call,         \* which statistics function was called: "none" before the call
    stats_return,       \* <<>>, or <<d>> once the function returned the dict d
    dermatome_names,    \* argument of generate_dermatome_report
    report_return,      \* <<>>, or <<r>> once generate_dermatome_report ended with r
    \* ---- MultiPointAnalyzer ----
    roi_mean,           \* per template ROI: mean of the captured pixels (absent: none captured)
    comparison_groups,  \* template.comparison_groups
    mp_status,          \* "idle", "done" or "raised"
    mp_result,          \* the MultiPointAnalysisResult fields, once done
    \* ---- HotspotDetector ----
    frame_width,        \* thermal_data.shape[1]; 0 for a None / empty frame
    method,             \* the method tag of the call
    contours,           \* what cv2.findContours yields on the cleaned mask
    hs_status,          \* "idle", "returned" or "raised"
    hs_regions,         \* the list detect_hotspots returned
    hs_call,            \* the method called: "none" before the call
    hs_thresholded,     \* whether a threshold mask was computed during the call
    lr_return,          \* <<>>, or <<t>> once detect_left_right_hotspots returned the pair t
    \* ---- AnatomicalTemplate and the ROI loop of analyze_template ----
    template_rois,      \* template.rois
    thermal_frame,      \* thermal_data of analyze_template: rows of pixels
    visible_shape,      \* visible_image_shape: <<>> for None, else <<[h, w]>>
    roi_pixel_counts,   \* result.roi_pixel_counts
    created_date,       \* template.created_date
    modified_date,      \* template.modified_date
    now,                \* what datetime.now() answers
    \* ---- MainWindow: the two batch drivers ----
    loaded_images,      \* self.loaded_images
    current_rois,       \* self.current_rois
    use_same_rois,      \* the answer to the question of process_all_images
    batch_mode,         \* "manual" (process_all_images) or "auto" (process_all_images_auto)
    batch_phase,        \* "idle", "loop" (in the for loop), "done", "returned" (left early)
    batch_idx,          \* idx of the next iteration of the loop
    progress_canceled,  \* what progress.wasCanceled() answers
    all_results,        \* the local list all_results
    successful,         \* the local counter successful
    failed,             \* the local counter failed
    attempted,          \* the idx of the images whose try block was entered, in order
    batch_results,      \* self.batch_results
    \* ---- FLIRValidator and FLIRHTMLParser: the validation diff ----
    flir_mean_temp,     \* measurement.mean_temp of the matched ROI
    system_temp,        \* the temperature of the system for that ROI
    validation_result,  \* <<>>, or <<r>> once _create_validation_result returned r
    report_status,      \* <<>>, or <<s>> once create_validation_report wrote the status s
    \* ---- ROIEditorDialog and its ROICanvas ----
    editor_rois,        \* ROIEditorDialog.rois (list_rois shows one item per entry)
    completed_rois,     \* ROICanvas.completed_rois
    \* ---- MainWindow: runs of the batch drivers and generate_report ----
    batch_runs,         \* how many times a batch driver was started
    exam_data,          \* <<>>, or <<d>>: the exam_data generate_report assembled last
    \* ---- MainWindow.process_image ----
    current_image,      \* the place in loaded_images of current_image_data, 0 for None
    process_return,     \* <<>>, or <<r>>: how process_image ended and what it found
    \* ---- ClaudeClient.generate_report ----
    api_answers,        \* what client.messages.create answers for each model
    exam_type,          \* argument of generate_report
    client_model,       \* self.model
    client_phase,       \* "idle", "loop" (in the for loop), "returned" or "raised"
    client_idx,         \* how many models of models_to_try the loop has taken
    tried,              \* the models messages.create was called with, in order
    client_return       \* <<>>, or <<t>> once generate_report returned the text t

asymVars == <<left_temp, right_temp, dermatome, analysis_history, asym_return,
              asym_calls>>
bttVars == <<region_temps, headache_info, btt_return>>
statsVars == <<thermal_data, roi_mask, stats_call, stats_return>>
reportVars == <<dermatome_names, report_return>>
tplVars == <<template_rois, thermal_frame, visible_shape, roi_pixel_counts,
             created_date, modified_date, now>>
batchVars == <<loaded_images, current_rois, use_same_rois, batch_mode, batch_phase, batch_idx, progress_canceled,
               all_results, successful, failed, attempted, batch_results>>
mpVars == <<roi_mean, comparison_groups, mp_status, mp_result>>
hsVars == <<frame_width, method, contours, hs_status, hs_regions,
            hs_call, hs_thresholded, lr_return>>
valVars == <<flir_mean_temp, system_temp, validation_result, report_status>>
editorVars == <<editor_rois, completed_rois>>
genVars == <<batch_runs, exam_data>>
manVars == <<current_image, process_return>>
clientVars == <<api_answers, exam_type, client_model, client_phase, client_idx, tried,
                client_return>>
extVars == <<valVars, editorVars, genVars, manVars, clientVars>>
vars == <<asymVars, last_call, mpVars, hsVars, extVars, bttVars, statsVars, reportVars,
          tplVars, batchVars>>

\* what an operation of one component leaves alone: the other components (the
\* methods of ThermalAnalyzer all set last_call)
notAsym == <<mpVars, hsVars, extVars, bttVars, statsVars, reportVars, tplVars, batchVars>>
notMp == <<asymVars, last_call, hsVars, extVars, bttVars, statsVars, reportVars, tplVars, batchVars>>
notHs == <<asymVars, last_call, mpVars, bttVars, statsVars, reportVars, tplVars, batchVars, extVars>>
notBtt == <<asymVars, mpVars, hsVars, extVars, statsVars, reportVars, tplVars, batchVars>>
notStats == <<asymVars, mpVars, hsVars, extVars, bttVars, reportVars, tplVars, batchVars>>
notReport == <<asymVars, mpVars, hsVars, extVars, bttVars, statsVars, tplVars, batchVars>>

None == "None"

Abs(x) == IF x < 0 THEN -x ELSE x

Min(a, b) == IF a < b THEN a ELSE b

(***************************************************************************)
(* Bounds of the model.                                                    *)
(***************************************************************************)
TempMin == 3400
TempMax == 3680
MaxHistory == 2
HistorySteps == 42
MaxGroups == 2
MaxContours == 3
MaxPixels == 3
MaxRois == 2
MaxClock == 1
MaxImages == 3
MaxRuns == 2

\* left temperatures of the calls: the two scenarios of the documentation and one more
LeftTemps == {3420, 3450, 3600}
RightTemps == TempMin..TempMax
DermatomeInputs == {None, "C5", "L4"}

\* the calls of a session that keeps one analyzer: one left temperature, right
\* temperatures every 0.05 C around it
HistoryLeft == {3450}
HistoryRight == {TempMin + 5 * k : k \in 0..HistorySteps}

\* the ROIs of the template, in template order, and the mean temperatures an
\* ROI can yield: 35.0, 36.0 and 36.5, whose differences are 0.5, 1.0 and 1.5
ROI_NAMES == <<"A", "B", "C">>
RoiNameSet == {ROI_NAMES[i] : i \in 1..Len(ROI_NAMES)}
MpTemps == {3500, 3600, 3650}

\* the groups a template can declare: lists of distinct ROI names, the empty one included
GroupChoices ==
    {<<>>}
      \cup {<<a>> : a \in RoiNameSet}
      \cup {g \in RoiNameSet \X RoiNameSet : g[1] # g[2]}
      \cup {g \in RoiNameSet \X RoiNameSet \X RoiNameSet :
               g[1] # g[2] /\ g[1] # g[3] /\ g[2] # g[3]}

GroupLists == UNION {[1..n -> GroupChoices] : n \in 0..MaxGroups}

\* the frames: 200 and 201 pixels wide, so that the midpoint is a pixel column
\* (100) or lies between two (100.5); the centroids are around it
FrameWidths == {200, 201}
CentroidXs == {99, 100, 101}
MethodTags == {"percentile", "otsu", "adaptive", "kmeans"}

(***************************************************************************)
(* ThermalAnalyzer                                                         *)
(***************************************************************************)
THRESHOLD_NORMAL == 50
THRESHOLD_MILD == 100
THRESHOLD_MODERATE == 150

CERVICAL_DERMATOMES == {"C3", "C4", "C5", "C6", "C7", "C8", "T1"}

\* a plausible slip: the first comparison made inclusive
classify_inclusive(delta_t) ==
    IF delta_t <= THRESHOLD_NORMAL THEN "Normal"
    ELSE IF delta_t < THRESHOLD_MILD THEN "Leve"
    ELSE IF delta_t < THRESHOLD_MODERATE THEN "Moderada"
    ELSE "Severa"

\* a plausible slip: the two middle labels exchanged
classify_swapped(delta_t) ==
    IF delta_t < THRESHOLD_NORMAL THEN "Normal"
    ELSE IF delta_t < THRESHOLD_MILD THEN "Moderada"
    ELSE IF delta_t < THRESHOLD_MODERATE THEN "Leve"
    ELSE "Severa"

_classify_asymmetry(delta_t) ==
    IF delta_t < THRESHOLD_NORMAL THEN "Normal"
    ELSE IF delta_t < THRESHOLD_MILD THEN "Leve"
    ELSE IF delta_t < THRESHOLD_MODERATE THEN "Moderada"
    ELSE "Severa"

\* the text is a lookup keyed by the bucket; the dermatome sentence is appended
\* only for a recognised dermatome
_get_clinical_significance(delta_t, classification, derm) ==
    [base_text |-> classification,
     dermatome_text |-> IF derm # None /\ derm \in CERVICAL_DERMATOMES
                        THEN derm ELSE None]

\* round(x, 2) of Python: to the nearest hundredth, a tie to the even one.
\* x is in millionths, the value is in hundredths.
round2(x) ==
    LET q == x \div 10000
        r == x % 10000
    IN  IF r > 5000 \/ (r = 5000 /\ q % 2 = 1) THEN q + 1 ELSE q

\* the loop over the thresholds: confidence *= 0.85 for each one within 0.1
RECURSIVE penalize(_, _, _)
penalize(confidence, delta_t, thresholds) ==
    IF thresholds = <<>> THEN confidence
    ELSE penalize(IF Abs(delta_t - Head(thresholds)) < 10
                  THEN (confidence * 85) \div 100
                  ELSE confidence,
                  delta_t, Tail(thresholds))

\* a plausible slip: the cap at 1.0 forgotten
confidence_uncapped(delta_t, classification) ==
    round2(penalize(delta_t * 5000, delta_t,
                    <<THRESHOLD_NORMAL, THRESHOLD_MILD, THRESHOLD_MODERATE>>))

_calculate_confidence(delta_t, classification) ==
    round2(penalize(Min(delta_t * 5000, 1000000), delta_t,
                    <<THRESHOLD_NORMAL, THRESHOLD_MILD, THRESHOLD_MODERATE>>))

\* the AsymmetryResult that analyze_asymmetry builds
AsymmetryResult(left, right, derm) ==
    LET delta_t == Abs(left - right)
        classification == _classify_asymmetry(delta_t)
    IN  [delta_t |-> delta_t,
         classification |-> classification,
         left_temp |-> left,
         right_temp |-> right,
         clinical_significance |->
             _get_clinical_significance(delta_t, classification, derm),
         confidence |-> _calculate_confidence(delta_t, classification)]

\* a plausible slip: the result put at the front of the history
analyze_asymmetry_prepend(left, right, derm) ==
    LET result == AsymmetryResult(left, right, derm)
    IN  /\ analysis_history' = <<result>> \o analysis_history
        /\ asym_return' = <<result>>
        /\ asym_calls' = asym_calls + 1
        /\ last_call' = "analyze_asymmetry"

\* analyze_asymmetry(left, right, derm): builds the result, appends it to the
\* history and returns it
analyze_asymmetry(left, right, derm) ==
    LET result == AsymmetryResult(left, right, derm)
    IN  /\ analysis_history' = Append(analysis_history, result)
        /\ asym_return' = <<result>>
        /\ asym_calls' = asym_calls + 1
        /\ last_call' = "analyze_asymmetry"

\* a caller analysing the pair it holds
AnalyzeAsymmetry ==
    /\ Len(analysis_history) < MaxHistory
    /\ analyze_asymmetry(left_temp, right_temp, dermatome)
    /\ UNCHANGED <<left_temp, right_temp, dermatome, notAsym>>

AsymIdle ==
    /\ left_temp = 0
    /\ right_temp = 0
    /\ dermatome = None
    /\ analysis_history = <<>>
    /\ asym_return = <<>>
    /\ asym_calls = 0

BttIdle ==
    /\ region_temps = <<>>
    /\ headache_info = <<>>
    /\ btt_return = <<>>

StatsIdle ==
    /\ thermal_data = <<>>
    /\ roi_mask = <<>>
    /\ stats_call = "none"
    /\ stats_return = <<>>

ReportIdle ==
    /\ dermatome_names = <<>>
    /\ report_return = <<>>

TplIdle ==
    /\ template_rois = <<>>
    /\ thermal_frame = <<>>
    /\ visible_shape = <<>>
    /\ roi_pixel_counts = <<>>
    /\ created_date = 0
    /\ modified_date = 0
    /\ now = 0

BatchIdle ==
    /\ loaded_images = <<>>
    /\ current_rois = <<>>
    /\ use_same_rois = FALSE
    /\ batch_mode = "manual"
    /\ batch_phase = "idle"
    /\ batch_idx = 0
    /\ progress_canceled = FALSE
    /\ all_results = <<>>
    /\ successful = 0
    /\ failed = 0
    /\ attempted = <<>>
    /\ batch_results = <<>>

MpIdle ==
    /\ roi_mean = <<>>
    /\ comparison_groups = <<>>
    /\ mp_status = "idle"
    /\ mp_result = <<>>

HsIdle ==
    /\ frame_width = 0
    /\ method = "percentile"
    /\ contours = <<>>
    /\ hs_status = "idle"
    /\ hs_regions = <<>>
    /\ hs_call = "none"
    /\ hs_thresholded = FALSE
    /\ lr_return = <<>>

ValIdle ==
    /\ flir_mean_temp = 0
    /\ system_temp = 0
    /\ validation_result = <<>>
    /\ report_status = <<>>

\* the components outside the analysis engine, before any use
EditorIdle ==
    /\ editor_rois = <<>>
    /\ completed_rois = <<>>

GenIdle ==
    /\ batch_runs = 0
    /\ exam_data = <<>>

ManIdle ==
    /\ current_image = 0
    /\ process_return = <<>>

ClientIdle ==
    /\ api_answers = <<>>
    /\ exam_type = "dermatome"
    /\ client_model = "claude-3-5-haiku-20241022"
    /\ client_phase = "idle"
    /\ client_idx = 0
    /\ tried = <<>>
    /\ client_return = <<>>

ExtIdle == ValIdle /\ EditorIdle /\ GenIdle /\ ManIdle /\ ClientIdle

\* the components that the analyzers do not touch, before any use
RestIdle ==
    /\ last_call = "none"
    /\ BttIdle /\ StatsIdle /\ ReportIdle /\ TplIdle /\ BatchIdle
    /\ ExtIdle

InitAsym ==
    /\ left_temp \in LeftTemps
    /\ right_temp \in RightTemps
    /\ dermatome \in DermatomeInputs
    /\ analysis_history = <<>>
    /\ asym_return = <<>>
    /\ asym_calls = 0
    /\ MpIdle
    /\ HsIdle
    /\ RestIdle

NextAsym == AnalyzeAsymmetry

SpecAsym == InitAsym /\ [][NextAsym]_vars

(***************************************************************************)
(* ThermalAnalyzer.analyze_btt                                             *)
(*                                                                         *)
(* A dict is a function from its keys.  A text that the code searches      *)
(* (the pain location, the label of an asymmetry) is the sequence of its   *)
(* characters.  The two formatted texts of the result are kept as the      *)
(* parts the code joins, with the numbers it interpolates unformatted.     *)
(***************************************************************************)
dict_get(d, k, default) == IF k \in DOMAIN d THEN d[k] ELSE default

\* str.lower on the letters that occur
lower_char(c) ==
    CASE c = "T" -> "t"
      [] c = "P" -> "p"
      [] c = "F" -> "f"
      [] c = "E" -> "e"
      [] c = "D" -> "d"
      [] c = "L" -> "l"
      [] c = "R" -> "r"
      [] c = "S" -> "s"
      [] c = "A" -> "a"
      [] c = "I" -> "i"
      [] c = "C" -> "c"
      [] OTHER -> c

lower(text) == [i \in 1..Len(text) |-> lower_char(text[i])]

\* sub in text
contains(sub, text) ==
    \E i \in 0..(Len(text) - Len(sub)) : SubSeq(text, i + 1, i + Len(sub)) = sub

\* the characters of the labels analyze_btt gives to its asymmetries
label_chars(label) ==
    CASE label = "Parietal L/R" -> <<"P", "a", "r", "i", "e", "t", "a", "l", " ", "L", "/", "R">>
      [] label = "Temporal L/R" -> <<"T", "e", "m", "p", "o", "r", "a", "l", " ", "L", "/", "R">>

\* a plausible slip: > written for >=
side_asymmetry_strict(regions, left_key, right_key, label) ==
    IF left_key \in DOMAIN regions /\ right_key \in DOMAIN regions
    THEN LET delta == Abs(regions[left_key] - regions[right_key])
         IN  IF delta > THRESHOLD_NORMAL
             THEN <<[regions |-> label,
                     delta_t |-> delta,
                     classification |-> _classify_asymmetry(delta)]>>
             ELSE <<>>
    ELSE <<>>

\* one of the two left/right blocks of analyze_btt: what it appends
side_asymmetry(regions, left_key, right_key, label) ==
    IF left_key \in DOMAIN regions /\ right_key \in DOMAIN regions
    THEN LET delta == Abs(regions[left_key] - regions[right_key])
         IN  IF delta >= THRESHOLD_NORMAL
             THEN <<[regions |-> label,
                     delta_t |-> delta,
                     classification |-> _classify_asymmetry(delta)]>>
             ELSE <<>>
    ELSE <<>>

\* the loop that computes the largest delta_t, from entry i on
RECURSIVE max_delta_from(_, _, _)
max_delta_from(asymmetries, i, max_delta) ==
    IF i > Len(asymmetries) THEN max_delta
    ELSE max_delta_from(asymmetries, i + 1,
                        IF asymmetries[i].delta_t > max_delta
                        THEN asymmetries[i].delta_t ELSE max_delta)

RECURSIVE sum_values(_, _)
sum_values(d, keys) ==
    IF keys = {} THEN 0
    ELSE LET k == CHOOSE k \in keys : TRUE
         IN  d[k] + sum_values(d, keys \ {k})

\* avg_temp is the fraction sum / count (nan for no region)
_analyze_thermal_pattern(regions, asymmetries) ==
    [avg_temp |-> [sum |-> sum_values(regions, DOMAIN regions),
                   count |-> Cardinality(DOMAIN regions)],
     gradient |->
        IF "frontal" \in DOMAIN regions /\ "occipital" \in DOMAIN regions
        THEN LET gradient == regions["frontal"] - regions["occipital"]
             IN  IF Abs(gradient) > 50
                 THEN <<[direction |-> IF gradient > 0 THEN "maior" ELSE "menor",
                         magnitude |-> Abs(gradient)]>>
                 ELSE <<>>
        ELSE <<>>,
     asymmetry_count |-> Len(asymmetries),
     symmetric_note |-> asymmetries = <<>>]

_correlate_headache(regions, asymmetries, info) ==
    LET headache_type == dict_get(info, "type", "não especificada")
        pain_location == dict_get(info, "location",
                                  <<"n", "ã", "o", " ", "e", "s", "p", "e", "c",
                                    "i", "f", "i", "c", "a", "d", "a">>)
        pain_intensity == dict_get(info, "intensity", 0)
        temporal_asyms ==
            SelectSeq(asymmetries,
                      LAMBDA a : contains(<<"T", "e", "m", "p", "o", "r", "a", "l">>,
                                          label_chars(a.regions)))
    IN  [type |-> headache_type,
         location |-> pain_location,
         intensity |-> pain_intensity,
         asymmetry_lines |-> asymmetries,
         positive_note |->
            /\ asymmetries # <<>>
            /\ contains(<<"t", "e", "m", "p", "o", "r", "a", "l">>, lower(pain_location))
            /\ temporal_asyms # <<>>,
         neutral_note |-> asymmetries = <<>>]

\* the BTTResult; headache_correlation is <<>> for None
analyze_btt(regions, info) ==
    LET asymmetries ==
            side_asymmetry(regions, "parietal_left", "parietal_right", "Parietal L/R")
              \o side_asymmetry(regions, "temporal_left", "temporal_right", "Temporal L/R")
    IN  [regions |-> regions,
         asymmetries |-> asymmetries,
         thermal_pattern |-> _analyze_thermal_pattern(regions, asymmetries),
         headache_correlation |->
            IF info # <<>> /\ DOMAIN info[1] # {}
            THEN <<_correlate_headache(regions, asymmetries, info[1])>>
            ELSE <<>>,
         max_delta_t |-> max_delta_from(asymmetries, 1, 0)]

\* a caller analysing the regions it holds
AnalyzeBtt ==
    /\ btt_return = <<>>
    /\ btt_return' = <<analyze_btt(region_temps, headache_info)>>
    /\ last_call' = "analyze_btt"
    /\ UNCHANGED <<region_temps, headache_info, notBtt>>

BttOptional(temps) == {<<>>} \cup {<<t>> : t \in temps}

\* the dict with the regions that were given a temperature
BttRegionMap(opt) ==
    [k \in {k \in DOMAIN opt : opt[k] # <<>>} |-> opt[k][1]]

\* left sides at 35.0 C when present; right sides around the buckets' bounds
BttLeft == BttOptional({3500})
BttRight == BttOptional({3500, 3451, 3450, 3401, 3600, 3649, 3650, 3700})
BttRegionMaps ==
    {BttRegionMap([frontal |-> f, parietal_left |-> pl, parietal_right |-> pr,
                   temporal_left |-> tl, temporal_right |-> tr, occipital |-> o]) :
        f \in BttOptional({3600}), pl \in BttLeft, pr \in BttRight,
        tl \in BttLeft, tr \in BttRight, o \in BttOptional({3500})}

HeadacheInfos ==
    {<<>>,
     <<[k \in {} |-> 0]>>,
     <<[type |-> "enxaqueca",
        location |-> <<"T", "e", "m", "p", "o", "r", "a", "l">>,
        intensity |-> 7]>>,
     <<[location |-> <<"p", "a", "r", "i", "e", "t", "a", "l">>]>>}

InitBtt ==
    /\ region_temps \in BttRegionMaps
    /\ headache_info \in HeadacheInfos
    /\ btt_return = <<>>
    /\ AsymIdle
    /\ last_call = "none"
    /\ MpIdle
    /\ HsIdle
    /\ StatsIdle /\ ReportIdle /\ TplIdle /\ BatchIdle
    /\ ExtIdle

NextBtt == AnalyzeBtt

SpecBtt == InitBtt /\ [][NextBtt]_vars

(***************************************************************************)
(* MultiPointAnalyzer                                                      *)
(***************************************************************************)
\* a plausible slip: the test roi1 != roi2 forgotten
build_matrix_with_diagonal(roi_temperatures) ==
    [roi1 \in DOMAIN roi_temperatures |->
        [roi2 \in DOMAIN roi_temperatures |->
            roi_temperatures[roi1] - roi_temperatures[roi2]]]

\* a plausible slip: the operands of the subtraction exchanged
build_matrix_reversed(roi_temperatures) ==
    [roi1 \in DOMAIN roi_temperatures |->
        [roi2 \in DOMAIN roi_temperatures \ {roi1} |->
            roi_temperatures[roi2] - roi_temperatures[roi1]]]

\* matrix[roi1][roi2] = temp[roi1] - temp[roi2] for roi1 != roi2
_build_comparison_matrix(roi_temperatures) ==
    [roi1 \in DOMAIN roi_temperatures |->
        [roi2 \in DOMAIN roi_temperatures \ {roi1} |->
            roi_temperatures[roi1] - roi_temperatures[roi2]]]

\* MultiPointAnalysisResult.get_delta_t: <<delta>>, or <<>> for None
get_delta_t(comparison_matrix, roi1, roi2) ==
    IF roi1 \in DOMAIN comparison_matrix /\ roi2 \in DOMAIN comparison_matrix[roi1]
    THEN <<comparison_matrix[roi1][roi2]>>
    ELSE <<>>

\* max(temps), min(temps) and temps.index(x) of a non-empty list
SeqMax(temps) ==
    CHOOSE x \in {temps[i] : i \in 1..Len(temps)} :
        \A i \in 1..Len(temps) : temps[i] <= x

SeqMin(temps) ==
    CHOOSE x \in {temps[i] : i \in 1..Len(temps)} :
        \A i \in 1..Len(temps) : temps[i] >= x

IndexOf(temps, x) ==
    CHOOSE i \in 1..Len(temps) :
        temps[i] = x /\ \A j \in 1..(i - 1) : temps[j] # x

RECURSIVE SeqSum(_)
SeqSum(temps) ==
    IF temps = <<>> THEN 0 ELSE Head(temps) + SeqSum(Tail(temps))

\* a plausible slip: the boundary 1.0 given to the lower bucket
group_classification_inclusive(temps) ==
    IF Len(temps) = 2
    THEN LET delta_t == Abs(temps[1] - temps[2])
         IN  IF delta_t < 50 THEN "Normal"
             ELSE IF delta_t <= 100 THEN "Leve"
             ELSE IF delta_t < 150 THEN "Moderada"
             ELSE "Severa"
    ELSE None

\* a plausible slip: the first pair classified whatever the size of the group
group_classification_any_size(temps) ==
    LET delta_t == Abs(temps[1] - temps[2])
    IN  IF delta_t < 50 THEN "Normal"
        ELSE IF delta_t < 100 THEN "Leve"
        ELSE IF delta_t < 150 THEN "Moderada"
        ELSE "Severa"

\* the classification of a group: the four buckets, written out again in
\* _analyze_comparison_groups, for a group of two; None otherwise
group_classification(temps) ==
    IF Len(temps) = 2
    THEN LET delta_t == Abs(temps[1] - temps[2])
         IN  IF delta_t < 50 THEN "Normal"
             ELSE IF delta_t < 100 THEN "Leve"
             ELSE IF delta_t < 150 THEN "Moderada"
             ELSE "Severa"
    ELSE None

\* the group_result record of one group; avg_temp is the mean as sum / count
group_result(valid_rois, roi_temperatures) ==
    LET temps == [i \in 1..Len(valid_rois) |-> roi_temperatures[valid_rois[i]]]
    IN  [group_rois |-> valid_rois,
         temperatures |-> [roi \in {valid_rois[i] : i \in 1..Len(valid_rois)} |->
                              roi_temperatures[roi]],
         max_delta_t |-> SeqMax(temps) - SeqMin(temps),
         max_temp_roi |-> valid_rois[IndexOf(temps, SeqMax(temps))],
         min_temp_roi |-> valid_rois[IndexOf(temps, SeqMin(temps))],
         avg_temp |-> [sum |-> SeqSum(temps), count |-> Len(temps)],
         classification |-> group_classification(temps)]

\* a plausible slip: only the groups with no known member skipped
too_few_below_one(valid_rois) == Len(valid_rois) < 1

\* the test that skips a group
too_few(valid_rois) == Len(valid_rois) < 2

\* the loop over the groups.  max() of an empty list raises ValueError.
RECURSIVE group_loop(_, _, _)
group_loop(groups, roi_temperatures, results) ==
    IF groups = <<>> THEN [raised |-> FALSE, results |-> results]
    ELSE LET group == Head(groups)
             valid_rois == SelectSeq(group, LAMBDA roi : roi \in DOMAIN roi_temperatures)
         IN  IF too_few(valid_rois)
             THEN group_loop(Tail(groups), roi_temperatures, results)
             ELSE IF valid_rois = <<>>
             THEN [raised |-> TRUE, results |-> results]
             ELSE group_loop(Tail(groups), roi_temperatures,
                             Append(results, group_result(valid_rois, roi_temperatures)))

_analyze_comparison_groups(groups, roi_temperatures) ==
    group_loop(groups, roi_temperatures, <<>>)

\* the temperature and difference statistics of overall_stats (the means and the
\* standard deviation, which are not exact in fixed point, are left out).
\* <<>> is the empty dict; max_delta_t is <<v>>, or <<>> when the key is not set.
_calculate_overall_stats(roi_temperatures, comparison_matrix) ==
    IF DOMAIN roi_temperatures = {} THEN <<>>
    ELSE LET temps == {roi_temperatures[r] : r \in DOMAIN roi_temperatures}
             maxT == CHOOSE x \in temps : \A y \in temps : y <= x
             minT == CHOOSE x \in temps : \A y \in temps : y >= x
             all_deltas == UNION {{Abs(comparison_matrix[a][b]) :
                                      b \in DOMAIN comparison_matrix[a]} :
                                  a \in DOMAIN comparison_matrix}
         IN  [total_rois |-> Cardinality(DOMAIN roi_temperatures),
              min_temperature |-> minT,
              max_temperature |-> maxT,
              temp_range |-> maxT - minT,
              max_delta_t |-> IF all_deltas # {}
                              THEN <<CHOOSE x \in all_deltas : \A y \in all_deltas : y <= x>>
                              ELSE <<>>]

\* the part of analyze_template that follows the ROI loop: the matrix, the
\* groups and the statistics of the temperatures the loop recorded
compare_rois(roi_temperatures) ==
    LET comparison_matrix == _build_comparison_matrix(roi_temperatures)
        groups == _analyze_comparison_groups(comparison_groups, roi_temperatures)
    IN  IF groups.raised
        THEN /\ mp_status' = "raised"
             /\ mp_result' = mp_result
        ELSE /\ mp_status' = "done"
             /\ mp_result' =
                  [roi_temperatures |-> roi_temperatures,
                   comparison_matrix |-> comparison_matrix,
                   group_comparisons |-> groups.results,
                   overall_stats |->
                       _calculate_overall_stats(roi_temperatures, comparison_matrix)]

\* analyze_template, from the means the ROI loop extracted: the ROIs that
\* captured pixels get a temperature, then the rest is computed
AnalyzeTemplate ==
    /\ mp_status = "idle"
    /\ compare_rois(roi_mean)
    /\ UNCHANGED <<roi_mean, comparison_groups, notMp>>

InitMulti ==
    /\ roi_mean \in UNION {[known -> MpTemps] : known \in SUBSET RoiNameSet}
    /\ comparison_groups \in GroupLists
    /\ mp_status = "idle"
    /\ mp_result = <<>>
    /\ AsymIdle
    /\ HsIdle
    /\ RestIdle

NextMulti == AnalyzeTemplate

SpecMulti == InitMulti /\ [][NextMulti]_vars

(***************************************************************************)
(* AnatomicalTemplate, and analyze_template with its ROI loop              *)
(*                                                                         *)
(* The thermal frame has two rows and two columns.  On such a frame        *)
(* cv2.fillPoly, which draws the outline of the polygon and its inside,    *)
(* marks exactly the vertices it is given once they are clamped into the   *)
(* frame: the line between two pixels of the frame meets no third pixel,   *)
(* and no pixel lies strictly inside a polygon of such vertices.  The      *)
(* pixel temperatures are multiples of 0.12 C, so that the mean of any     *)
(* one to four of them is a whole number of hundredths.  The scale factor  *)
(* is the fraction thermal size / visible size, exact in floating point    *)
(* for the sizes used.                                                     *)
(***************************************************************************)
ThermalFrames == {<<<<3504, 3600>>, <<3612, 3648>>>>}
VisibleShapes == {<<>>, <<[h |-> 4, w |-> 4]>>}

TplCoordinates ==
    {<<>>,
     << <<1, 1>> >>,
     << <<0, 0>>, <<3, 3>> >>,
     << <<0, 0>>, <<3, 0>>, <<3, 3>> >>,
     << <<0, 0>>, <<3, 0>>, <<3, 3>>, <<0, 3>> >>,
     << <<8, 8>>, <<9, 8>>, <<9, 9>> >>,
     << <<-4, -4>>, <<-3, -4>>, <<-3, -3>> >>,
     << <<8, 0>>, <<9, 0>>, <<9, 3>> >>,
     << <<2, 0>>, <<9, 0>>, <<9, 9>> >>}

\* the AnatomicalROI objects a caller constructs: the dataclass takes any
\* name and any list of coordinates
AnatomicalROI(name, coordinates) ==
    [name |-> name, coordinates |-> coordinates, region_type |-> "dermatome"]

\* the name and the category of the template, which no method changes
template_name == "Coluna cervical"
template_category == "dermatomes"

RoiChoices == {AnatomicalROI(n, c) : n \in {"A", "B"}, c \in TplCoordinates}

\* the dicts from_dict is given: no ROI, one ROI, two ROIs
TemplateDicts ==
    {[name |-> template_name, category |-> template_category,
      rois |-> rs, comparison_groups |-> gs, created_date |-> 0, modified_date |-> 0] :
        gs \in {<<>>, << <<"A", "B">> >>},
        rs \in {<<>>,
                <<AnatomicalROI("A", << <<0, 0>>, <<3, 0>>, <<3, 3>> >>)>>,
                <<AnatomicalROI("A", << <<0, 0>>, <<3, 3>> >>),
                  AnatomicalROI("B", << <<8, 8>>, <<9, 8>>, <<9, 9>> >>)>>}}

\* time passes
Tick ==
    /\ now < MaxClock
    /\ now' = now + 1
    /\ UNCHANGED <<template_rois, thermal_frame, visible_shape, roi_pixel_counts,
                   created_date, modified_date, asymVars, last_call, mpVars, hsVars, extVars,
                   bttVars, statsVars, reportVars, batchVars>>

\* template.add_roi(roi)
add_roi(rois, roi) == Append(rois, roi)

\* the index of the first ROI of that name, 0 if there is none
first_named(rois, roi_name) ==
    IF \E i \in 1..Len(rois) : rois[i].name = roi_name
    THEN CHOOSE i \in 1..Len(rois) :
            /\ rois[i].name = roi_name
            /\ \A j \in 1..(i - 1) : rois[j].name # roi_name
    ELSE 0

\* del self.rois[i]
delete_at(rois, i) == SubSeq(rois, 1, i - 1) \o SubSeq(rois, i + 1, Len(rois))

\* the template is built first and analysed then: the operations on the
\* template act while no analysis was made
AddRoi ==
    /\ mp_status = "idle"
    /\ Len(template_rois) < MaxRois
    /\ \E roi \in RoiChoices : template_rois' = add_roi(template_rois, roi)
    /\ modified_date' = now
    /\ UNCHANGED <<thermal_frame, visible_shape, roi_pixel_counts, created_date, now,
                   asymVars, last_call, mpVars, hsVars, extVars, bttVars, statsVars,
                   reportVars, batchVars>>

\* template.remove_roi(roi_name)
RemoveRoi ==
    /\ mp_status = "idle"
    /\ \E roi_name \in {"A", "B"} :
          LET i == first_named(template_rois, roi_name)
          IN  IF i > 0
              THEN /\ template_rois' = delete_at(template_rois, i)
                   /\ modified_date' = now
              ELSE UNCHANGED <<template_rois, modified_date>>
    /\ UNCHANGED <<thermal_frame, visible_shape, roi_pixel_counts, created_date, now,
                   asymVars, last_call, mpVars, hsVars, extVars, bttVars, statsVars,
                   reportVars, batchVars>>

\* the ROIs of from_dict(data): add_roi of each entry, in order
RECURSIVE rois_from_dict(_, _, _)
rois_from_dict(entries, i, rois) ==
    IF i > Len(entries) THEN rois
    ELSE rois_from_dict(entries, i + 1,
                        add_roi(rois, AnatomicalROI(entries[i].name,
                                                    entries[i].coordinates)))

\* the template held, as one object
template ==
    [name |-> template_name,
     category |-> template_category,
     rois |-> template_rois,
     comparison_groups |-> comparison_groups,
     created_date |-> created_date,
     modified_date |-> modified_date]

\* AnatomicalROI.to_dict()
roi_to_dict(roi) ==
    [name |-> roi.name, coordinates |-> roi.coordinates, region_type |-> roi.region_type]

\* AnatomicalTemplate.to_dict()
to_dict(t) ==
    [name |-> t.name,
     category |-> t.category,
     rois |-> [i \in 1..Len(t.rois) |-> roi_to_dict(t.rois[i])],
     comparison_groups |-> t.comparison_groups,
     created_date |-> t.created_date,
     modified_date |-> t.modified_date]

\* AnatomicalTemplate.from_dict(data) when datetime.now() answers clock: the
\* constructor takes the dates of the dict, then add_roi of every ROI sets
\* modified_date
from_dict(data, clock) ==
    [name |-> data.name,
     category |-> data.category,
     rois |-> rois_from_dict(data.rois, 1, <<>>),
     comparison_groups |-> data.comparison_groups,
     created_date |-> data.created_date,
     modified_date |-> IF data.rois # <<>> THEN clock ELSE data.modified_date]

\* the template held becomes t
hold(t) ==
    /\ template_rois' = t.rois
    /\ comparison_groups' = t.comparison_groups
    /\ created_date' = t.created_date
    /\ modified_date' = t.modified_date

\* AnatomicalTemplate.from_dict(data): the template held is the one it returns
FromDict ==
    /\ mp_status = "idle"
    /\ \E data \in TemplateDicts \cup {to_dict(template)} : hold(from_dict(data, now))
    /\ UNCHANGED <<thermal_frame, visible_shape, roi_pixel_counts, now,
                   roi_mean, mp_status, mp_result,
                   asymVars, last_call, hsVars, extVars, bttVars, statsVars,
                   reportVars, batchVars>>

\* the groups a caller declares: two ROIs of the template, or one of them
\* with the name of an ROI the template never has
TplGroupChoices == {<<"A", "B">>, <<"B", "C">>}

\* template.add_comparison_group(roi_names)
AddComparisonGroup ==
    /\ mp_status = "idle"
    /\ Len(comparison_groups) < MaxGroups
    /\ \E roi_names \in TplGroupChoices :
          comparison_groups' = Append(comparison_groups, roi_names)
    /\ modified_date' = now
    /\ UNCHANGED <<template_rois, thermal_frame, visible_shape, roi_pixel_counts,
                   created_date, now, roi_mean, mp_status, mp_result,
                   asymVars, last_call, hsVars, extVars, bttVars, statsVars,
                   reportVars, batchVars>>

\* int(x): truncation towards zero of the fraction a / b, b > 0
trunc_div(a, b) == IF a >= 0 THEN a \div b ELSE -((-a) \div b)

frame_h(frame) == Len(frame)

frame_w(frame) == Len(frame[1])

\* (int(x * scale_x), int(y * scale_y)) of every vertex
scale_points(coordinates, frame, shape) ==
    [i \in 1..Len(coordinates) |->
        IF shape = <<>> THEN coordinates[i]
        ELSE <<trunc_div(coordinates[i][1] * frame_w(frame), shape[1].w),
               trunc_div(coordinates[i][2] * frame_h(frame), shape[1].h)>>]

Max(a, b) == IF a > b THEN a ELSE b

\* (max(0, min(x, thermal_w - 1)), max(0, min(y, thermal_h - 1)))
clamp_points(points, frame) ==
    [i \in 1..Len(points) |->
        <<Max(0, Min(points[i][1], frame_w(frame) - 1)),
          Max(0, Min(points[i][2], frame_h(frame) - 1))>>]

\* the pixels <<x, y>> that cv2.fillPoly sets to 255
fillPoly(points, frame) ==
    {points[i] : i \in 1..Len(points)}
        \cap {<<x, y>> : x \in 0..(frame_w(frame) - 1), y \in 0..(frame_h(frame) - 1)}

\* thermal_data[mask == 255]: the marked pixels, row by row
roi_region(frame, marked) ==
    LET cells == [k \in 1..(frame_h(frame) * frame_w(frame)) |->
                     <<(k - 1) % frame_w(frame), (k - 1) \div frame_w(frame)>>]
        picked == SelectSeq(cells, LAMBDA c : c \in marked)
    IN  [j \in 1..Len(picked) |-> frame[picked[j][2] + 1][picked[j][1] + 1]]

dict_put(d, k, v) == [x \in DOMAIN d \cup {k} |-> IF x = k THEN v ELSE d[x]]

\* the ROI loop of analyze_template from ROI i on: the two dicts it fills
RECURSIVE roi_loop(_, _, _, _, _)
roi_loop(rois, i, frame, shape, dicts) ==
    IF i > Len(rois) THEN dicts
    ELSE IF rois[i].coordinates = <<>>
    THEN roi_loop(rois, i + 1, frame, shape, dicts)
    ELSE LET scaled_points == clamp_points(scale_points(rois[i].coordinates, frame, shape),
                                           frame)
             region == roi_region(frame, fillPoly(scaled_points, frame))
         IN  IF Len(region) > 0
             THEN roi_loop(rois, i + 1, frame, shape,
                     [roi_temperatures |->
                         dict_put(dicts.roi_temperatures, rois[i].name,
                                  SeqSum(region) \div Len(region)),
                      roi_pixel_counts |->
                         dict_put(dicts.roi_pixel_counts, rois[i].name, Len(region))])
             ELSE roi_loop(rois, i + 1, frame, shape, dicts)

\* analyze_template(template, thermal_data, visible_image)
AnalyzeTemplateFrame ==
    /\ mp_status = "idle"
    /\ thermal_frame # <<>>
    /\ LET dicts == roi_loop(template_rois, 1, thermal_frame, visible_shape,
                             [roi_temperatures |-> <<>>, roi_pixel_counts |-> <<>>])
       IN  /\ roi_pixel_counts' = dicts.roi_pixel_counts
           /\ compare_rois(dicts.roi_temperatures)
    /\ UNCHANGED <<roi_mean, comparison_groups, template_rois, thermal_frame,
                   visible_shape, created_date, modified_date, now,
                   asymVars, last_call, hsVars, extVars, bttVars, statsVars, reportVars,
                   batchVars>>

InitTemplate ==
    /\ template_rois = <<>>
    /\ thermal_frame \in ThermalFrames
    /\ visible_shape \in VisibleShapes
    /\ roi_pixel_counts = <<>>
    /\ created_date = 0
    /\ modified_date = 0
    /\ now = 0
    /\ AsymIdle
    /\ last_call = "none"
    /\ MpIdle
    /\ HsIdle
    /\ BttIdle /\ StatsIdle /\ ReportIdle /\ BatchIdle
    /\ ExtIdle

NextTemplate ==
    Tick \/ AddRoi \/ RemoveRoi \/ AddComparisonGroup \/ FromDict \/ AnalyzeTemplateFrame

SpecTemplate == InitTemplate /\ [][NextTemplate]_vars

(***************************************************************************)
(* ROI statistics: ThermalAnalyzer.analyze_roi_statistics and              *)
(* FLIRProcessor.extract_roi_temperatures                                  *)
(*                                                                         *)
(* The frame and the mask have the same shape; both are given pixel by     *)
(* pixel, in the order of the boolean indexing.  A statistic is the exact  *)
(* fraction num / den of hundredths of a degree; the standard deviation is *)
(* given by its square, the variance.                                      *)
(***************************************************************************)
PixelTemps == {3500, 3600, 3650}

zero == [num |-> 0, den |-> 1]

whole(x) == [num |-> x, den |-> 1]

\* thermal_data[roi_mask > 0]
masked_pixels(data, mask) ==
    LET picked == SelectSeq([i \in 1..Len(data) |-> i], LAMBDA i : mask[i] > 0)
    IN  [j \in 1..Len(picked) |-> data[picked[j]]]

RECURSIVE insert_sorted(_, _)
insert_sorted(x, sorted) ==
    IF sorted = <<>> THEN <<x>>
    ELSE IF Head(sorted) <= x
         THEN <<Head(sorted)>> \o insert_sorted(x, Tail(sorted))
         ELSE <<x>> \o sorted

RECURSIVE sorted_from(_, _, _)
sorted_from(a, i, sorted) ==
    IF i > Len(a) THEN sorted
    ELSE sorted_from(a, i + 1, insert_sorted(a[i], sorted))

RECURSIVE sum_squares(_)
sum_squares(a) ==
    IF a = <<>> THEN 0 ELSE Head(a) * Head(a) + sum_squares(Tail(a))

np_mean(a) == [num |-> SeqSum(a), den |-> Len(a)]

\* np.percentile(a, 25 * quarters), linear interpolation between the two
\* neighbours of position quarters * (n - 1) / 4 of the sorted values
np_percentile(a, quarters) ==
    LET sorted == sorted_from(a, 1, <<>>)
        pos == quarters * (Len(a) - 1)
        lo == pos \div 4
        r == pos % 4
        hi == IF r = 0 THEN lo ELSE lo + 1
    IN  [num |-> (4 - r) * sorted[lo + 1] + r * sorted[hi + 1], den |-> 4]

np_median(a) == np_percentile(a, 2)

\* the square of np.std(a): the population variance
np_std_squared(a) ==
    [num |-> Len(a) * sum_squares(a) - SeqSum(a) * SeqSum(a), den |-> Len(a) * Len(a)]

\* a plausible slip: the test of the empty selection forgotten, so that np.min
\* raises on it
analyze_roi_statistics_unguarded(data, mask) ==
    LET roi_temps == masked_pixels(data, mask)
    IN  IF Len(roi_temps) = 0
        THEN [raised |-> TRUE, value |-> <<>>]
        ELSE [raised |-> FALSE,
              value |-> [mean |-> np_mean(roi_temps),
                         median |-> np_median(roi_temps),
                         std |-> np_std_squared(roi_temps),
                         min |-> whole(SeqMin(roi_temps)),
                         max |-> whole(SeqMax(roi_temps)),
                         q25 |-> np_percentile(roi_temps, 1),
                         q75 |-> np_percentile(roi_temps, 3),
                         count |-> Len(roi_temps)]]

analyze_roi_statistics(data, mask) ==
    LET roi_temps == masked_pixels(data, mask)
    IN  IF Len(roi_temps) = 0
        THEN [raised |-> FALSE,
              value |-> [mean |-> zero, median |-> zero, std |-> zero,
                         min |-> zero, max |-> zero, q25 |-> zero, q75 |-> zero,
                         count |-> 0]]
        ELSE [raised |-> FALSE,
              value |-> [mean |-> np_mean(roi_temps),
                         median |-> np_median(roi_temps),
                         std |-> np_std_squared(roi_temps),
                         min |-> whole(SeqMin(roi_temps)),
                         max |-> whole(SeqMax(roi_temps)),
                         q25 |-> np_percentile(roi_temps, 1),
                         q75 |-> np_percentile(roi_temps, 3),
                         count |-> Len(roi_temps)]]

extract_roi_temperatures(data, mask) ==
    LET roi_temps == masked_pixels(data, mask)
    IN  IF Len(roi_temps) = 0
        THEN [raised |-> FALSE,
              value |-> [min_temp |-> zero, max_temp |-> zero, mean_temp |-> zero,
                         median_temp |-> zero, std_temp |-> zero, pixel_count |-> 0]]
        ELSE [raised |-> FALSE,
              value |-> [min_temp |-> whole(SeqMin(roi_temps)),
                         max_temp |-> whole(SeqMax(roi_temps)),
                         mean_temp |-> np_mean(roi_temps),
                         median_temp |-> np_median(roi_temps),
                         std_temp |-> np_std_squared(roi_temps),
                         pixel_count |-> Len(roi_temps)]]

AnalyzeRoiStatistics ==
    /\ stats_call = "none"
    /\ stats_call' = "analyze_roi_statistics"
    /\ stats_return' = <<analyze_roi_statistics(thermal_data, roi_mask)>>
    /\ last_call' = "analyze_roi_statistics"
    /\ UNCHANGED <<thermal_data, roi_mask, notStats>>

ExtractRoiTemperatures ==
    /\ stats_call = "none"
    /\ stats_call' = "extract_roi_temperatures"
    /\ stats_return' = <<extract_roi_temperatures(thermal_data, roi_mask)>>
    /\ UNCHANGED <<thermal_data, roi_mask, last_call, notStats>>

InitStats ==
    /\ thermal_data \in UNION {[1..n -> PixelTemps] : n \in 0..MaxPixels}
    /\ roi_mask \in [1..Len(thermal_data) -> {0, 255}]
    /\ stats_call = "none"
    /\ stats_return = <<>>
    /\ AsymIdle
    /\ last_call = "none"
    /\ MpIdle
    /\ HsIdle
    /\ BttIdle /\ ReportIdle /\ TplIdle /\ BatchIdle
    /\ ExtIdle

NextStats == AnalyzeRoiStatistics \/ ExtractRoiTemperatures

SpecStats == InitStats /\ [][NextStats]_vars

(***************************************************************************)
(* HotspotDetector                                                         *)
(*                                                                         *)
(* The thresholding, the morphological cleaning and cv2.findContours are   *)
(* the library's: what they yield is the list `contours`, each contour     *)
(* with its cv2.contourArea, the x of its centroid (M10 / M00, truncated)  *)
(* and the mean of the frame over its filled shape.  A region carries the  *)
(* index of its contour as id.                                             *)
(***************************************************************************)
min_region_size == 100
max_regions == 2

\* the contours findContours can yield
ContourChoices ==
    [area : {min_region_size - 1, min_region_size},
     cx : CentroidXs,
     temp_mean : MpTemps]

ContourLists == UNION {[1..n -> ContourChoices] : n \in 0..MaxContours}

\* _find_regions: a contour below the minimum area is passed over, the others
\* give a region each, in contour order, with no position yet
RECURSIVE find_regions_from(_, _)
find_regions_from(cs, i) ==
    IF i > Len(cs) THEN <<>>
    ELSE IF cs[i].area < min_region_size THEN find_regions_from(cs, i + 1)
    ELSE <<[id |-> i,
            area |-> cs[i].area,
            cx |-> cs[i].cx,
            temp_mean |-> cs[i].temp_mean,
            position |-> None]>> \o find_regions_from(cs, i + 1)

_find_regions(cs) == find_regions_from(cs, 1)

\* list.sort(key=temp_mean, reverse=True): stable, hottest first
RECURSIVE insert_desc(_, _)
insert_desc(r, sorted) ==
    IF sorted = <<>> THEN <<r>>
    ELSE IF Head(sorted).temp_mean >= r.temp_mean
         THEN <<Head(sorted)>> \o insert_desc(r, Tail(sorted))
         ELSE <<r>> \o sorted

RECURSIVE insert_asc(_, _)
insert_asc(r, sorted) ==
    IF sorted = <<>> THEN <<r>>
    ELSE IF Head(sorted).temp_mean <= r.temp_mean
         THEN <<Head(sorted)>> \o insert_asc(r, Tail(sorted))
         ELSE <<r>> \o sorted

RECURSIVE sort_from(_, _, _)
sort_from(regions, i, sorted) ==
    IF i > Len(regions) THEN sorted
    ELSE sort_from(regions, i + 1, insert_desc(regions[i], sorted))

RECURSIVE sort_asc_from(_, _, _)
sort_asc_from(regions, i, sorted) ==
    IF i > Len(regions) THEN sorted
    ELSE sort_asc_from(regions, i + 1, insert_asc(regions[i], sorted))

\* a plausible slip: reverse=True forgotten
sort_by_mean_ascending(regions) == sort_asc_from(regions, 1, <<>>)

sort_by_mean(regions) == sort_from(regions, 1, <<>>)

\* a plausible slip: the midpoint column counted as left
classify_positions_inclusive(regions, image_width) ==
    [i \in 1..Len(regions) |->
        [regions[i] EXCEPT
            !.position = IF 2 * regions[i].cx <= image_width THEN "left" ELSE "right"]]

\* center_x = image_width / 2 is a float: cx < center_x is 2 * cx < image_width
_classify_positions(regions, image_width) ==
    [i \in 1..Len(regions) |->
        [regions[i] EXCEPT
            !.position = IF 2 * regions[i].cx < image_width THEN "left" ELSE "right"]]

\* a plausible slip: an unknown tag falls back to the default method
detect_hotspots_default_method(width, tag, cs) ==
    IF width = 0
    THEN [status |-> "returned", regions |-> <<>>, thresholded |-> FALSE]
    ELSE LET found == _find_regions(cs)
             big == SelectSeq(found, LAMBDA r : r.area >= min_region_size)
             sorted == sort_from(big, 1, <<>>)
             kept == SubSeq(sorted, 1, Min(Len(sorted), max_regions))
         IN  [status |-> "returned",
              regions |-> _classify_positions(kept, width),
              thresholded |-> TRUE]

\* a plausible slip: the test of the frame forgotten, so that np.min fails on it
detect_hotspots_no_frame_check(width, tag, cs) ==
    IF width = 0 \/ tag \notin {"percentile", "otsu", "adaptive"}
    THEN [status |-> "raised", regions |-> <<>>, thresholded |-> FALSE]
    ELSE LET found == _find_regions(cs)
             big == SelectSeq(found, LAMBDA r : r.area >= min_region_size)
             sorted == sort_from(big, 1, <<>>)
             kept == SubSeq(sorted, 1, Min(Len(sorted), max_regions))
         IN  [status |-> "returned",
              regions |-> _classify_positions(kept, width),
              thresholded |-> TRUE]

\* detect_hotspots on a frame of the given width (0: None or empty) with the
\* given method tag, the cleaned mask having the contours cs
detect_hotspots(width, tag, cs) ==
    IF width = 0
    THEN [status |-> "returned", regions |-> <<>>, thresholded |-> FALSE]
    ELSE IF tag \notin {"percentile", "otsu", "adaptive"}
    THEN [status |-> "raised", regions |-> <<>>, thresholded |-> FALSE]
    ELSE LET found == _find_regions(cs)
             big == SelectSeq(found, LAMBDA r : r.area >= min_region_size)
             sorted == sort_by_mean(big)
             kept == SubSeq(sorted, 1, Min(Len(sorted), max_regions))
         IN  [status |-> "returned",
              regions |-> _classify_positions(kept, width),
              thresholded |-> TRUE]

\* detect_left_right_hotspots: the regions of detect_hotspots, split by
\* position; of each side the first one.  A temperature is <<t>>, None is <<>>.
detect_left_right_hotspots(width, tag, cs) ==
    LET out == detect_hotspots(width, tag, cs)
        regions == out.regions
        left_regions == SelectSeq(regions, LAMBDA r : r.position = "left")
        right_regions == SelectSeq(regions, LAMBDA r : r.position = "right")
    IN  IF out.status = "raised"
        THEN [inner |-> out, returned |-> <<>>]
        ELSE IF regions = <<>>
        THEN [inner |-> out,
              returned |-> <<[temp_left |-> <<>>, temp_right |-> <<>>]>>]
        ELSE [inner |-> out,
              returned |->
                 <<[temp_left |-> IF left_regions # <<>>
                                  THEN <<left_regions[1].temp_mean>> ELSE <<>>,
                    temp_right |-> IF right_regions # <<>>
                                   THEN <<right_regions[1].temp_mean>> ELSE <<>>]>>]

DetectHotspots ==
    /\ hs_call = "none"
    /\ \E tag \in MethodTags :
          LET out == detect_hotspots(frame_width, tag, contours)
          IN  /\ method' = tag
              /\ hs_status' = out.status
              /\ hs_regions' = out.regions
              /\ hs_thresholded' = out.thresholded
    /\ hs_call' = "detect_hotspots"
    /\ UNCHANGED <<frame_width, contours, lr_return, notHs>>

\* hs_regions is then the list the inner call of detect_hotspots returned
DetectLeftRightHotspots ==
    /\ hs_call = "none"
    /\ \E tag \in MethodTags :
          LET out == detect_left_right_hotspots(frame_width, tag, contours)
          IN  /\ method' = tag
              /\ hs_status' = out.inner.status
              /\ hs_regions' = out.inner.regions
              /\ hs_thresholded' = out.inner.thresholded
              /\ lr_return' = out.returned
    /\ hs_call' = "detect_left_right_hotspots"
    /\ UNCHANGED <<frame_width, contours, notHs>>

\* a None or empty frame has no contour
InitHotspot ==
    /\ \/ frame_width = 0 /\ contours = <<>>
       \/ frame_width \in FrameWidths /\ contours \in ContourLists
    /\ method = "percentile"
    /\ hs_status = "idle"
    /\ hs_regions = <<>>
    /\ hs_call = "none"
    /\ hs_thresholded = FALSE
    /\ lr_return = <<>>
    /\ AsymIdle
    /\ MpIdle
    /\ RestIdle

NextHotspot == DetectHotspots \/ DetectLeftRightHotspots

SpecHotspot == InitHotspot /\ [][NextHotspot]_vars

(***************************************************************************)
(* A session on one analyzer: any sequence of analyze_asymmetry calls.     *)
(***************************************************************************)
InitHistory == AsymIdle /\ MpIdle /\ HsIdle /\ RestIdle

SessionAnalyze ==
    /\ \E l \in HistoryLeft, r \in HistoryRight :
          /\ left_temp' = l
          /\ right_temp' = r
          /\ dermatome' = None
          /\ Len(analysis_history) < MaxHistory
          /\ analyze_asymmetry(l, r, None)
    /\ UNCHANGED notAsym

NextHistory == SessionAnalyze

SpecHistory == InitHistory /\ [][NextHistory]_vars

(***************************************************************************)
(* MainWindow.process_all_images and process_all_images_auto               *)
(*                                                                         *)
(* A driver runs inside the event loop: progress.setValue lets the dialog  *)
(* take the click on its Cancel button, which the next test of             *)
(* progress.wasCanceled() sees.  The run is therefore a process: it        *)
(* starts, makes one pass of the for loop at a time, and ends with the     *)
(* code that follows the loop; the click may come between two passes.      *)
(*                                                                         *)
(* An image carries what the pass reads of it: whether it has thermal      *)
(* data, its own ROIs (name, and whether the ROI has points), the mean of  *)
(* its pixels under the ROI of each name, whether the work on it raises    *)
(* (cv2 on the ROI polygons or in the detection), and for the automatic    *)
(* driver the width of its frame and the contours of its hot mask.         *)
(***************************************************************************)
Esq == <<"E", "s", "q">>
Dir == <<"D", "i", "r">>
Centro == <<"C", "e", "n", "t", "r", "o">>
RightSide == <<"R", "i", "g", "h", "t", " ", "S", "i", "d", "e">>
LeftSide == <<"L", "e", "f", "t", " ", "S", "i", "d", "e">>

\* the means under the two ROIs named in English, the same in every image
SideMeans == (RightSide :> 3520) @@ (LeftSide :> 3640)

combo_dermatome == "C5"

BothRois == <<[name |-> Esq, has_points |-> TRUE], [name |-> Dir, has_points |-> TRUE]>>
SideRois ==
    <<[name |-> RightSide, has_points |-> TRUE], [name |-> LeftSide, has_points |-> TRUE]>>

ImageChoices ==
    {[image_path |-> <<"exame", "a.jpg">>, thermal_data |-> TRUE, raises |-> FALSE,
      rois |-> BothRois,
      region_mean |-> (Esq :> 3650) @@ (Dir :> 3500) @@ (Centro :> 3600) @@ SideMeans,
      width |-> 200,
      contours |-> <<[area |-> 100, cx |-> 99, temp_mean |-> 3650],
                     [area |-> 100, cx |-> 101, temp_mean |-> 3500]>>],
     [image_path |-> <<"exame", "b.jpg">>, thermal_data |-> TRUE, raises |-> FALSE,
      rois |-> <<[name |-> Esq, has_points |-> TRUE], [name |-> Dir, has_points |-> FALSE],
                 [name |-> Centro, has_points |-> TRUE]>>,
      region_mean |-> (Esq :> 3500) @@ (Dir :> 3520) @@ (Centro :> 3600) @@ SideMeans,
      width |-> 200,
      contours |-> <<[area |-> 100, cx |-> 99, temp_mean |-> 3600]>>],
     [image_path |-> <<"exame", "c.jpg">>, thermal_data |-> FALSE, raises |-> FALSE,
      rois |-> BothRois,
      region_mean |-> (Esq :> 3500) @@ (Dir :> 3500) @@ (Centro :> 3500) @@ SideMeans,
      width |-> 0,
      contours |-> <<>>],
     [image_path |-> <<"exame", "d.jpg">>, thermal_data |-> TRUE, raises |-> TRUE,
      rois |-> BothRois,
      region_mean |-> (Esq :> 3500) @@ (Dir :> 3500) @@ (Centro :> 3500) @@ SideMeans,
      width |-> 200,
      contours |-> <<[area |-> 100, cx |-> 99, temp_mean |-> 3600]>>],
     [image_path |-> <<"exame", "e.jpg">>, thermal_data |-> TRUE, raises |-> FALSE,
      rois |-> <<>>,
      region_mean |-> (Esq :> 3500) @@ (Dir :> 3600) @@ (Centro :> 3500) @@ SideMeans,
      width |-> 200,
      contours |-> <<[area |-> 100, cx |-> 99, temp_mean |-> 3500],
                     [area |-> 100, cx |-> 101, temp_mean |-> 3600]>>]}

\* Path(image_path).name
path_name(image_path) == image_path[Len(image_path)]

\* the side the name of an ROI stands for
name_side(name) ==
    LET name_lower == lower(name)
    IN  IF \/ contains(<<"e", "s", "q">>, name_lower)
           \/ contains(<<"l", "e", "f", "t">>, name_lower)
           \/ name_lower[Len(name_lower)] = "e"
        THEN "left"
        ELSE IF \/ contains(<<"d", "i", "r">>, name_lower)
                \/ contains(<<"r", "i", "g", "h", "t">>, name_lower)
                \/ name_lower[Len(name_lower)] = "d"
        THEN "right"
        ELSE "none"

\* roi_temps[name] = ... on the items of a dict, kept in the order of insertion
items_put(items, k, v) ==
    IF \E i \in 1..Len(items) : items[i][1] = k
    THEN [i \in 1..Len(items) |-> IF items[i][1] = k THEN <<k, v>> ELSE items[i]]
    ELSE Append(items, <<k, v>>)

\* the loop over the ROIs of one image, from ROI i on
RECURSIVE roi_temps_from(_, _, _, _)
roi_temps_from(rois, i, image, items) ==
    IF i > Len(rois) THEN items
    ELSE IF ~rois[i].has_points
    THEN roi_temps_from(rois, i + 1, image, items)
    ELSE roi_temps_from(rois, i + 1, image,
                        items_put(items, rois[i].name, image.region_mean[rois[i].name]))

\* the loop that looks for the left and the right temperature, from item i on
RECURSIVE sides_from(_, _, _)
sides_from(items, i, found) ==
    IF i > Len(items) THEN found
    ELSE LET side == name_side(items[i][1])
         IN  sides_from(items, i + 1,
                        IF side = "left" THEN [found EXCEPT !.left = <<items[i][2]>>]
                        ELSE IF side = "right" THEN [found EXCEPT !.right = <<items[i][2]>>]
                        ELSE found)

\* the try block of process_all_images on one image: the pair to analyse, if any
manual_pass(image, rois) ==
    IF rois = <<>> THEN [left |-> <<>>, right |-> <<>>]
    ELSE IF ~image.thermal_data THEN [left |-> <<>>, right |-> <<>>]
    ELSE IF image.raises THEN [left |-> <<>>, right |-> <<>>]
    ELSE sides_from(roi_temps_from(rois, 1, image, <<>>), 1,
                    [left |-> <<>>, right |-> <<>>])

\* the try block of process_all_images_auto on one image
auto_pass(image) ==
    IF ~image.thermal_data THEN [left |-> <<>>, right |-> <<>>]
    ELSE IF image.raises THEN [left |-> <<>>, right |-> <<>>]
    ELSE LET pair == detect_left_right_hotspots(image.width, "percentile",
                                                image.contours).returned[1]
         IN  [left |-> pair.temp_left, right |-> pair.temp_right]

start_loop ==
    /\ batch_phase' = "loop"
    /\ batch_idx' = 0
    /\ progress_canceled' = FALSE
    /\ all_results' = <<>>
    /\ successful' = 0
    /\ failed' = 0
    /\ attempted' = <<>>

return_early ==
    /\ batch_phase' = "returned"
    /\ UNCHANGED <<batch_idx, progress_canceled, all_results, successful, failed,
                   attempted>>

\* process_all_images up to its for loop
ProcessAllImages ==
    /\ batch_phase = "idle"
    /\ batch_mode' = "manual"
    /\ IF Len(loaded_images) < 2
       THEN return_early /\ UNCHANGED use_same_rois
       ELSE \E reply \in {"Yes", "No", "Cancel"} :
               IF reply = "Cancel"
               THEN return_early /\ UNCHANGED use_same_rois
               ELSE /\ use_same_rois' = (reply = "Yes")
                    /\ IF reply = "Yes" /\ current_rois = <<>>
                       THEN return_early
                       ELSE start_loop
    /\ UNCHANGED <<loaded_images, current_rois, batch_results, asymVars, last_call,
                   mpVars, hsVars, extVars, bttVars, statsVars, reportVars, tplVars>>

\* process_all_images_auto up to its for loop
ProcessAllImagesAuto ==
    /\ batch_phase = "idle"
    /\ batch_mode' = "auto"
    /\ IF Len(loaded_images) < 2
       THEN return_early
       ELSE \E reply \in {"Yes", "No"} :
               IF reply = "No" THEN return_early ELSE start_loop
    /\ UNCHANGED <<loaded_images, current_rois, use_same_rois, batch_results, asymVars,
                   last_call, mpVars, hsVars, extVars, bttVars, statsVars, reportVars, tplVars>>

\* the user clicks Cancel on the progress dialog
CancelPressed ==
    /\ batch_phase = "loop"
    /\ ~progress_canceled
    /\ progress_canceled' = TRUE
    /\ UNCHANGED <<loaded_images, current_rois, use_same_rois, batch_mode, batch_phase,
                   batch_idx, all_results, successful, failed, attempted, batch_results,
                   asymVars, last_call, mpVars, hsVars, extVars, bttVars, statsVars, reportVars,
                   tplVars>>

\* the entry a pass appends to all_results
result_entry(idx, image, left, right, result, mode) ==
    [image_index |-> idx + 1,
     image_name |-> path_name(image.image_path),
     left_temp |-> left,
     right_temp |-> right,
     delta_t |-> result.delta_t,
     classification |-> result.classification,
     clinical_significance |-> result.clinical_significance,
     method |-> IF mode = "auto" THEN <<"auto_hotspot">> ELSE <<>>]

\* a plausible slip: an except clause that logs and does not count
pass_counters_uncounted(both_found, s, f) ==
    IF both_found THEN [successful |-> s + 1, failed |-> f]
    ELSE [successful |-> s, failed |-> f]

\* successful += 1 where the pair was analysed, failed += 1 on every other path
pass_counters(both_found, s, f) ==
    IF both_found THEN [successful |-> s + 1, failed |-> f]
    ELSE [successful |-> s, failed |-> f + 1]

\* one pass of the for loop of either driver: the test of the cancellation,
\* then the try block with its except clause
BatchPass ==
    /\ batch_phase = "loop"
    /\ batch_idx < Len(loaded_images)
    /\ ~progress_canceled
    /\ LET idx == batch_idx
           image == loaded_images[idx + 1]
           rois == IF use_same_rois THEN current_rois ELSE image.rois
           found == IF batch_mode = "manual" THEN manual_pass(image, rois)
                    ELSE auto_pass(image)
       IN  IF found.left # <<>> /\ found.right # <<>>
           THEN /\ left_temp' = found.left[1]
                /\ right_temp' = found.right[1]
                /\ dermatome' = combo_dermatome
                /\ analyze_asymmetry(found.left[1], found.right[1], combo_dermatome)
                /\ all_results' =
                      Append(all_results,
                             result_entry(idx, image, found.left[1], found.right[1],
                                          AsymmetryResult(found.left[1], found.right[1],
                                                          combo_dermatome),
                                          batch_mode))
           ELSE UNCHANGED <<asymVars, last_call, all_results>>
    /\ LET image == loaded_images[batch_idx + 1]
           rois == IF use_same_rois THEN current_rois ELSE image.rois
           found == IF batch_mode = "manual" THEN manual_pass(image, rois)
                    ELSE auto_pass(image)
           counters == pass_counters(found.left # <<>> /\ found.right # <<>>,
                                     successful, failed)
       IN  /\ successful' = counters.successful
           /\ failed' = counters.failed
    /\ attempted' = Append(attempted, batch_idx)
    /\ batch_idx' = batch_idx + 1
    /\ UNCHANGED <<loaded_images, current_rois, use_same_rois, batch_mode, batch_phase,
                   progress_canceled, batch_results, mpVars, hsVars, extVars, bttVars, statsVars,
                   reportVars, tplVars>>

\* a plausible slip: a cancelled run drops what it had collected
BatchEnd_rollback ==
    /\ batch_phase = "loop"
    /\ progress_canceled \/ batch_idx = Len(loaded_images)
    /\ all_results' = IF progress_canceled THEN <<>> ELSE all_results
    /\ batch_results' = IF all_results' # <<>> THEN all_results' ELSE batch_results
    /\ batch_phase' = "done"
    /\ UNCHANGED <<loaded_images, current_rois, use_same_rois, batch_mode, batch_idx,
                   progress_canceled, successful, failed, attempted,
                   asymVars, last_call, mpVars, hsVars, extVars, bttVars, statsVars, reportVars,
                   tplVars>>

\* a plausible slip: the results stored without the test for an empty list
BatchEnd_overwrite ==
    /\ batch_phase = "loop"
    /\ progress_canceled \/ batch_idx = Len(loaded_images)
    /\ batch_results' = all_results
    /\ batch_phase' = "done"
    /\ UNCHANGED <<loaded_images, current_rois, use_same_rois, batch_mode, batch_idx,
                   progress_canceled, all_results, successful, failed, attempted,
                   asymVars, last_call, mpVars, hsVars, extVars, bttVars, statsVars, reportVars,
                   tplVars>>

\* the loop is left, by break or at the end of the list, and the code after
\* it stores the results if there are any
BatchEnd ==
    /\ batch_phase = "loop"
    /\ progress_canceled \/ batch_idx = Len(loaded_images)
    /\ batch_results' = IF all_results # <<>> THEN all_results ELSE batch_results
    /\ batch_phase' = "done"
    /\ UNCHANGED <<loaded_images, current_rois, use_same_rois, batch_mode, batch_idx,
                   progress_canceled, all_results, successful, failed, attempted,
                   asymVars, last_call, mpVars, hsVars, extVars, bttVars, statsVars, reportVars,
                   tplVars>>

InitBatch ==
    /\ loaded_images \in UNION {[1..n -> ImageChoices] : n \in 0..MaxImages}
    /\ current_rois \in {<<>>, BothRois}
    /\ use_same_rois = FALSE
    /\ batch_mode = "manual"
    /\ batch_phase = "idle"
    /\ batch_idx = 0
    /\ progress_canceled = FALSE
    /\ all_results = <<>>
    /\ successful = 0
    /\ failed = 0
    /\ attempted = <<>>
    /\ batch_results = <<>>
    /\ AsymIdle
    /\ last_call = "none"
    /\ MpIdle
    /\ HsIdle
    /\ BttIdle /\ StatsIdle /\ ReportIdle /\ TplIdle
    /\ ExtIdle

\* generate_report up to the batch entry of exam_data: without an API key it
\* returns at once; the key 'batch_results' is set only for a non-empty list
GenerateReport ==
    /\ batch_phase # "loop"
    /\ \E api_key \in BOOLEAN :
          IF ~api_key
          THEN UNCHANGED exam_data
          ELSE exam_data' = <<[batch_results |->
                                 IF batch_results # <<>> /\ Len(batch_results) > 0
                                 THEN <<batch_results>> ELSE <<>>]>>
    /\ UNCHANGED <<batchVars, batch_runs, asymVars, last_call, mpVars, hsVars, valVars,
                   editorVars, manVars, clientVars, bttVars, statsVars, reportVars,
                   tplVars>>

\* the driver has returned and the window waits for the next command: the
\* locals of the run are gone
DriverReturns ==
    /\ batch_phase \in {"done", "returned"}
    /\ batch_runs + 1 < MaxRuns
    /\ batch_runs' = batch_runs + 1
    /\ batch_phase' = "idle"
    /\ batch_idx' = 0
    /\ progress_canceled' = FALSE
    /\ all_results' = <<>>
    /\ successful' = 0
    /\ failed' = 0
    /\ attempted' = <<>>
    /\ UNCHANGED <<loaded_images, current_rois, use_same_rois, batch_mode, batch_results,
                   exam_data, asymVars, last_call, mpVars, hsVars, valVars, editorVars,
                   manVars, clientVars, bttVars, statsVars, reportVars, tplVars>>

NextBatch ==
    \/ ProcessAllImages
    \/ ProcessAllImagesAuto
    \/ CancelPressed
    \/ BatchPass
    \/ BatchEnd

SpecBatch == InitBatch /\ [][NextBatch]_vars

\* several runs of the drivers over two loaded images, and the generation of
\* the report between them
InitRerun ==
    /\ InitBatch
    /\ Len(loaded_images) = 2

NextRerun == NextBatch \/ DriverReturns \/ GenerateReport

SpecRerun == InitRerun /\ [][NextRerun]_vars

(***************************************************************************)
(* A session that uses every method of one ThermalAnalyzer, in any order.  *)
(***************************************************************************)
count_class(analyses, classification) ==
    Len(SelectSeq(analyses, LAMBDA a : a.classification = classification))

\* generate_dermatome_report: the report is kept as what its lines are made
\* of, the numbers unformatted
generate_dermatome_report(analyses, names) ==
    IF Len(analyses) # Len(names)
    THEN [raised |-> TRUE, report |-> <<>>]
    ELSE LET severe_count == count_class(analyses, "Severa")
             moderate_count == count_class(analyses, "Moderada")
             mild_count == count_class(analyses, "Leve")
         IN  [raised |-> FALSE,
              report |->
                <<[entries |->
                     [i \in 1..Len(analyses) |->
                        [dermatome |-> names[i],
                         left_temp |-> analyses[i].left_temp,
                         right_temp |-> analyses[i].right_temp,
                         delta_t |-> analyses[i].delta_t,
                         classification |-> analyses[i].classification,
                         confidence |-> analyses[i].confidence]],
                   severe |-> IF severe_count > 0 THEN <<severe_count>> ELSE <<>>,
                   moderate |-> IF moderate_count > 0 THEN <<moderate_count>> ELSE <<>>,
                   mild |-> IF mild_count > 0 THEN <<mild_count>> ELSE <<>>,
                   all_normal |-> severe_count = 0 /\ moderate_count = 0
                                     /\ mild_count = 0]>>]

SessionLeft == {3450}
SessionRight == {3450, 3520, 3650}
SessionRegionMaps ==
    {[frontal |-> 3600, occipital |-> 3500],
     [parietal_left |-> 3500, parietal_right |-> 3600,
      temporal_left |-> 3500, temporal_right |-> 3450]}
SessionFrames == {<<3500, 3600>>}
SessionMasks == {<<0, 0>>, <<255, 0>>}
SessionNames == {<<>>, <<"C5">>, <<"C5", "C6">>}

InitSession == AsymIdle /\ MpIdle /\ HsIdle /\ RestIdle

CallAnalyzeAsymmetry ==
    /\ Len(analysis_history) < MaxHistory
    /\ \E l \in SessionLeft, r \in SessionRight :
          /\ left_temp' = l
          /\ right_temp' = r
          /\ dermatome' = None
          /\ analyze_asymmetry(l, r, None)
    /\ UNCHANGED notAsym

CallAnalyzeBtt ==
    /\ \E regions \in SessionRegionMaps :
          /\ region_temps' = regions
          /\ btt_return' = <<analyze_btt(regions, <<>>)>>
    /\ last_call' = "analyze_btt"
    /\ UNCHANGED <<headache_info, notBtt>>

CallAnalyzeRoiStatistics ==
    /\ \E data \in SessionFrames, mask \in SessionMasks :
          /\ thermal_data' = data
          /\ roi_mask' = mask
          /\ stats_return' = <<analyze_roi_statistics(data, mask)>>
    /\ stats_call' = "analyze_roi_statistics"
    /\ last_call' = "analyze_roi_statistics"
    /\ UNCHANGED notStats

\* the caller reports on the analyses of the history
CallGenerateDermatomeReport ==
    /\ \E names \in SessionNames :
          /\ dermatome_names' = names
          /\ report_return' = <<generate_dermatome_report(analysis_history, names)>>
    /\ last_call' = "generate_dermatome_report"
    /\ UNCHANGED notReport

NextSession ==
    \/ CallAnalyzeAsymmetry
    \/ CallAnalyzeBtt
    \/ CallAnalyzeRoiStatistics
    \/ CallGenerateDermatomeReport

SpecSession == InitSession /\ [][NextSession]_vars

(***************************************************************************)
(* Claims on ThermalAnalyzer                                               *)
(***************************************************************************)
\* every AsymmetryResult the analyzer holds: the returned one and the history
AsymResults ==
    {asym_return[i] : i \in 1..Len(asym_return)}
        \cup {analysis_history[i] : i \in 1..Len(analysis_history)}

\* the bucket the documentation gives to a difference d (hundredths of a degree)
C1_Bucket(d) ==
    CASE d < 50 -> "Normal"
      [] 50 <= d /\ d < 100 -> "Leve"
      [] 100 <= d /\ d < 150 -> "Moderada"
      [] d >= 150 -> "Severa"

\* C1: analyze_asymmetry classifies delta_t = |left - right| into exactly one of
\* four buckets, lower bound inclusive and upper bound exclusive: below 0.5
\* Normal, [0.5, 1.0) Leve, [1.0, 1.5) Moderada, 1.5 and above Severa; the
\* pair (34.5, 35.8) gives 1.3 and Moderada, the pair (34.2, 34.4) gives 0.2
\* and Normal.
C1_Buckets ==
    \A r \in AsymResults :
        /\ r.classification = C1_Bucket(Abs(r.left_temp - r.right_temp))
        /\ (r.left_temp = 3450 /\ r.right_temp = 3580)
              => (r.delta_t = 130 /\ r.classification = "Moderada")
        /\ (r.left_temp = 3420 /\ r.right_temp = 3440)
              => (r.delta_t = 20 /\ r.classification = "Normal")

\* a call whose difference is exactly the first boundary has returned
C1_Witness ==
    /\ asym_return # <<>>
    /\ asym_return[1].delta_t = 50
    /\ asym_return[1].classification = "Leve"

C2_Rank(c) ==
    CASE c = "Normal" -> 0
      [] c = "Leve" -> 1
      [] c = "Moderada" -> 2
      [] c = "Severa" -> 3

\* C2: the delta_t of every result is |left - right| and is not negative, and
\* the classification is monotonic in delta_t: of two results, the one with
\* the larger delta_t never has the lower bucket.
C2_DeltaMonotonic ==
    \A i \in 1..Len(analysis_history) :
        LET a == analysis_history[i]
        IN  /\ a.delta_t = Abs(a.left_temp - a.right_temp)
            /\ a.delta_t >= 0
            /\ \A j \in 1..Len(analysis_history) :
                   LET b == analysis_history[j]
                   IN  a.delta_t <= b.delta_t
                         => C2_Rank(a.classification) <= C2_Rank(b.classification)

\* two calls of one session, the first with left above right, the second with a
\* larger difference and a higher bucket
C2_Witness ==
    /\ Len(analysis_history) >= 2
    /\ analysis_history[1].left_temp > analysis_history[1].right_temp
    /\ analysis_history[1].delta_t < analysis_history[2].delta_t
    /\ analysis_history[1].classification = "Leve"
    /\ analysis_history[2].classification = "Moderada"

\* the confidence the documentation gives to a difference d, in millionths
C3_Confidence(d) ==
    LET base == IF d * 5000 < 1000000 THEN d * 5000 ELSE 1000000
        near == \E t \in {50, 100, 150} : Abs(d - t) < 10
    IN  IF near THEN (base * 85) \div 100 ELSE base

\* C3: the confidence is min(delta_t / 2.0, 1.0), multiplied by 0.85 exactly
\* once when delta_t is at less than 0.1 of a boundary (0.5, 1.0, 1.5) and not
\* multiplied otherwise, then rounded to 2 decimals; it lies in [0, 1].
C3_ConfidenceFormula ==
    \A r \in AsymResults :
        /\ r.confidence = round2(C3_Confidence(r.delta_t))
        /\ 0 <= r.confidence
        /\ r.confidence <= 100

\* a call with a difference of 0.55, next to the first boundary: 0.275 * 0.85
C3_Witness ==
    /\ asym_return # <<>>
    /\ asym_return[1].delta_t = 55
    /\ asym_return[1].confidence = 23

(***************************************************************************)
(* Claims on MultiPointAnalyzer                                            *)
(***************************************************************************)
\* the entries of a matrix, as ordered pairs of ROI names
MatrixEntries(m) ==
    {e \in RoiNameSet \X RoiNameSet : e[1] \in DOMAIN m /\ e[2] \in DOMAIN m[e[1]]}

\* C4: for a temperature map with N ROIs the comparison matrix has an entry
\* for every ordered pair (A, B) with A # B and none for (A, A), N * (N - 1)
\* entries in all, and matrix[A][B] = -matrix[B][A] for every pair.
C4_MatrixShape ==
    mp_status = "done" =>
        LET m == mp_result.comparison_matrix
            known == DOMAIN mp_result.roi_temperatures
            N == Cardinality(known)
        IN  /\ MatrixEntries(m) = {e \in known \X known : e[1] # e[2]}
            /\ Cardinality(MatrixEntries(m)) = N * (N - 1)
            /\ \A e \in MatrixEntries(m) : m[e[1]][e[2]] = -m[e[2]][e[1]]

\* three ROIs with a temperature, two of them different
C4_Witness ==
    /\ mp_status = "done"
    /\ DOMAIN mp_result.roi_temperatures = RoiNameSet
    /\ mp_result.comparison_matrix["A"]["B"] = 100
    /\ mp_result.comparison_matrix["B"]["A"] = -100

\* C5: the difference read back from the matrix with get_delta_t(A, B) is
\* temp[A] - temp[B] of the temperature map, for all distinct known A and B.
C5_RoundTrip ==
    mp_status = "done" =>
        \A a \in DOMAIN roi_mean : \A b \in DOMAIN roi_mean \ {a} :
            get_delta_t(mp_result.comparison_matrix, a, b)
                = <<roi_mean[a] - roi_mean[b]>>

\* a colder ROI read against a hotter one: the difference read back is negative
C5_Witness ==
    /\ mp_status = "done"
    /\ {"A", "C"} \subseteq DOMAIN roi_mean
    /\ roi_mean["A"] = 3500
    /\ roi_mean["C"] = 3650
    /\ get_delta_t(mp_result.comparison_matrix, "A", "C") = <<-150>>

\* a declared group restricted to its members with a known temperature
C6_Restrict(group) == SelectSeq(group, LAMBDA roi : roi \in DOMAIN roi_mean)

\* the declared groups that keep at least 2 members
C6_Kept ==
    {i \in 1..Len(comparison_groups) : Len(C6_Restrict(comparison_groups[i])) >= 2}

\* C6: group evaluation never raises; a group with fewer than 2 known members
\* produces no result, every other group produces exactly one, the restriction
\* of the group to its known members, and the results are in declared order.
C6_GroupsSkipped ==
    /\ mp_status # "raised"
    /\ mp_status = "done" =>
          LET res == mp_result.group_comparisons
          IN  /\ Len(res) = Cardinality(C6_Kept)
              /\ \A i \in C6_Kept :
                    res[Cardinality({j \in C6_Kept : j <= i})].group_rois
                        = C6_Restrict(comparison_groups[i])

\* a group with one known member was skipped before a group that gave a result
C6_Witness ==
    /\ mp_status = "done"
    /\ Len(comparison_groups) = 2
    /\ Len(C6_Restrict(comparison_groups[1])) = 1
    /\ Len(mp_result.group_comparisons) = 1
    /\ mp_result.group_comparisons[1].group_rois = C6_Restrict(comparison_groups[2])

\* C7: a group result has a classification only when the group has exactly 2
\* known members, and then it is what _classify_asymmetry returns for the
\* |delta_t| of the pair; a group with 3 or more known members has None.
C7_GroupClassification ==
    mp_status = "done" =>
        \A k \in 1..Len(mp_result.group_comparisons) :
            LET g == mp_result.group_comparisons[k]
                rois == g.group_rois
            IN  /\ Len(rois) = 2 =>
                      g.classification =
                          _classify_asymmetry(Abs(roi_mean[rois[1]] - roi_mean[rois[2]]))
                /\ Len(rois) # 2 => g.classification = None

\* a pair exactly 1.0 apart, classified as analyze_asymmetry classifies it
C7_Witness ==
    /\ mp_status = "done"
    /\ \E k \in 1..Len(mp_result.group_comparisons) :
          LET g == mp_result.group_comparisons[k]
          IN  /\ Len(g.group_rois) = 2
              /\ g.max_delta_t = 100
              /\ g.classification = "Moderada"
    /\ \E k \in 1..Len(mp_result.group_comparisons) :
          Len(mp_result.group_comparisons[k].group_rois) = 3

\* the scenario: A at 36.0, B at 35.0, C unknown, and the group [A, B, C] declared
C8_Scenario ==
    /\ mp_status = "done"
    /\ DOMAIN roi_mean = {"A", "B"}
    /\ roi_mean["A"] = 3600
    /\ roi_mean["B"] = 3500
    /\ comparison_groups = << <<"A", "B", "C">> >>

\* the result of the scenario, but for its classification
C8_Result(classification) ==
    /\ Len(mp_result.group_comparisons) = 1
    /\ LET g == mp_result.group_comparisons[1]
       IN  /\ g.group_rois = <<"A", "B">>
           /\ g.max_delta_t = 100
           /\ g.max_temp_roi = "A"
           /\ g.min_temp_roi = "B"
           /\ g.classification = classification

\* C8 as claimed: the group [A, B, C] with A at 36.0, B at 35.0 and C unknown
\* gives a result restricted to [A, B], spread 1.0, hottest A, coldest B, and
\* classification Leve (Mild).
C8_AsClaimed == C8_Scenario => C8_Result("Leve")

\* C8, amended: the same result, with classification Moderada (Moderate): a
\* spread of exactly 1.0 is in the bucket [1.0, 1.5).
C8_ScenarioModerate == C8_Scenario => C8_Result("Moderada")

C8_Witness == C8_Scenario /\ mp_result.group_comparisons[1].classification = "Moderada"

(***************************************************************************)
(* Claims on HotspotDetector                                               *)
(***************************************************************************)
\* the contours that pass the size filter, and those among them that were returned
C9_Surviving == {i \in 1..Len(contours) : contours[i].area >= min_region_size}

C9_Returned == {hs_regions[k].id : k \in 1..Len(hs_regions)}

\* C9: detect_hotspots returns at most max_regions regions, each of area at
\* least min_region_size, by non-increasing mean temperature, and they are the
\* hottest of the components that pass the size filter: a surviving component
\* is left out only when max_regions regions were returned, none of them
\* colder than it.
C9_HottestRegions ==
    hs_status = "returned" =>
        /\ Len(hs_regions) <= max_regions
        /\ \A k \in 1..Len(hs_regions) :
              /\ hs_regions[k].area >= min_region_size
              /\ hs_regions[k].id \in C9_Surviving
              /\ hs_regions[k].temp_mean = contours[hs_regions[k].id].temp_mean
        /\ \A k \in 1..(Len(hs_regions) - 1) :
              hs_regions[k].temp_mean >= hs_regions[k + 1].temp_mean
        /\ Cardinality(C9_Returned) = Len(hs_regions)
        /\ \A i \in C9_Surviving \ C9_Returned :
              /\ Len(hs_regions) = max_regions
              /\ \A k \in 1..Len(hs_regions) :
                    contours[i].temp_mean <= hs_regions[k].temp_mean

\* three components pass the filter; the last one found is the hottest and
\* comes first, the coldest is left out
C9_Witness ==
    /\ hs_status = "returned"
    /\ C9_Surviving = {1, 2, 3}
    /\ Len(hs_regions) = 2
    /\ hs_regions[1].id = 3
    /\ hs_regions[2].id = 1
    /\ contours[2].temp_mean < hs_regions[2].temp_mean

\* C10: every returned region has a position tag: left exactly when its
\* centroid x is strictly less than frame_width / 2, right otherwise (a
\* centroid on the midpoint is right); none is left unset.
C10_PositionTags ==
    hs_status = "returned" =>
        \A k \in 1..Len(hs_regions) :
            /\ hs_regions[k].position \in {"left", "right"}
            /\ hs_regions[k].position = "left" <=> 2 * hs_regions[k].cx < frame_width

\* one region left of the midpoint, one exactly on it and tagged right
C10_Witness ==
    /\ hs_status = "returned"
    /\ Len(hs_regions) = 2
    /\ \E k \in 1..2 : hs_regions[k].position = "left"
    /\ \E k \in 1..2 :
          /\ 2 * hs_regions[k].cx = frame_width
          /\ hs_regions[k].position = "right"

\* the side of a contour, and the contours of a side that pass the size filter
C11_SideOf(i) == IF 2 * contours[i].cx < frame_width THEN "left" ELSE "right"

C11_OnSide(side) == {i \in C9_Surviving : C11_SideOf(i) = side}

C11_Expected(side) ==
    IF C11_OnSide(side) = {} THEN <<>>
    ELSE <<CHOOSE t \in {contours[i].temp_mean : i \in C11_OnSide(side)} :
               \A i \in C11_OnSide(side) : contours[i].temp_mean <= t>>

\* C11: detect_left_right_hotspots returns, for each side, the mean
\* temperature of the hottest region of that side among the components that
\* pass the size filter, and None for a side only when no such component lies
\* on that side.
C11_HottestPerSide ==
    lr_return # <<>> =>
        /\ lr_return[1].temp_left = C11_Expected("left")
        /\ lr_return[1].temp_right = C11_Expected("right")

\* C12 as claimed: for any frame, a call with a method tag other than
\* percentile, otsu or adaptive raises and returns no region list.
C12_AsClaimed ==
    (hs_call # "none" /\ method \notin {"percentile", "otsu", "adaptive"})
        => (hs_status = "raised" /\ lr_return = <<>>)

\* C12, amended: for any frame that is neither None nor empty, a call with a
\* method tag other than percentile, otsu or adaptive raises, before any
\* thresholding, and returns no region list.
C12_UnknownMethodRaises ==
    (hs_call # "none" /\ frame_width # 0
       /\ method \notin {"percentile", "otsu", "adaptive"})
        => (hs_status = "raised" /\ hs_regions = <<>> /\ lr_return = <<>>
              /\ ~hs_thresholded)

\* detect_hotspots called with an unknown tag on a frame with hot components
C12_Witness ==
    /\ hs_call = "detect_hotspots"
    /\ method = "kmeans"
    /\ frame_width = 200
    /\ C9_Surviving # {}
    /\ hs_status = "raised"

\* C13 as claimed: a call with a None or empty frame raises at once and
\* returns nothing.
C13_AsClaimed ==
    (hs_call # "none" /\ frame_width = 0) => hs_status = "raised"

\* C13, amended: a call of detect_hotspots with a None or empty frame returns
\* the empty list at once, before any thresholding and whatever the method
\* tag, and detect_left_right_hotspots then returns (None, None); neither raises.
C13_EmptyFrameReturnsEmpty ==
    (hs_call # "none" /\ frame_width = 0) =>
        /\ hs_status = "returned"
        /\ hs_regions = <<>>
        /\ ~hs_thresholded
        /\ hs_call = "detect_left_right_hotspots"
              => lr_return = <<[temp_left |-> <<>>, temp_right |-> <<>>]>>

\* detect_left_right_hotspots came back from a None or empty frame
C13_Witness ==
    /\ hs_call = "detect_left_right_hotspots"
    /\ frame_width = 0
    /\ hs_status = "returned"
    /\ lr_return = <<[temp_left |-> <<>>, temp_right |-> <<>>]>>

(***************************************************************************)
(* Claims on analyze_btt                                                   *)
(***************************************************************************)
\* the left/right pairs analyze_btt looks at: label, left key, right key
C20_Pairs ==
    {[label |-> "Parietal L/R", left |-> "parietal_left", right |-> "parietal_right"],
     [label |-> "Temporal L/R", left |-> "temporal_left", right |-> "temporal_right"]}

\* the pairs with both sides present and a difference of 0.5 C or more
C20_Listed ==
    {p \in C20_Pairs :
        /\ p.left \in DOMAIN region_temps
        /\ p.right \in DOMAIN region_temps
        /\ Abs(region_temps[p.left] - region_temps[p.right]) >= 50}

\* C20: analyze_btt computes the parietal and the temporal left/right delta
\* only when both sides are present; the asymmetry list holds exactly the
\* computed pairs whose delta is 0.5 or more, each once, each with its delta
\* and its bucket of the four-bucket scheme (never Normal); max_delta_t is the
\* largest listed delta, 0.0 when the list is empty.
C20_BttAsymmetries ==
    btt_return # <<>> =>
        LET r == btt_return[1]
            listed == {r.asymmetries[i] : i \in 1..Len(r.asymmetries)}
        IN  /\ Len(r.asymmetries) = Cardinality(C20_Listed)
            /\ \A p \in C20_Listed :
                  LET d == Abs(region_temps[p.left] - region_temps[p.right])
                  IN  [regions |-> p.label, delta_t |-> d,
                       classification |-> C1_Bucket(d)] \in listed
            /\ \A a \in listed : a.classification # "Normal"
            /\ \A a \in listed : a.delta_t <= r.max_delta_t
            /\ IF listed = {} THEN r.max_delta_t = 0
               ELSE \E a \in listed : a.delta_t = r.max_delta_t

\* a parietal difference of exactly 0.5 C listed as Leve next to a larger
\* temporal one, with frontal present and occipital missing
C20_Witness ==
    /\ btt_return # <<>>
    /\ DOMAIN region_temps = {"frontal", "parietal_left", "parietal_right",
                              "temporal_left", "temporal_right"}
    /\ Len(btt_return[1].asymmetries) = 2
    /\ btt_return[1].asymmetries[1] =
          [regions |-> "Parietal L/R", delta_t |-> 50, classification |-> "Leve"]
    /\ btt_return[1].asymmetries[2].classification = "Severa"
    /\ btt_return[1].max_delta_t = 200

C19_AppendOnly ==
    [][/\ last_call' = "analyze_asymmetry" =>
            /\ asym_return' # <<>>
            /\ analysis_history' = Append(analysis_history, asym_return'[1])
            /\ asym_calls' = asym_calls + 1
       /\ last_call' \in {"analyze_btt", "analyze_roi_statistics",
                          "generate_dermatome_report"} =>
            /\ analysis_history' = analysis_history
            /\ asym_calls' = asym_calls
       /\ Len(analysis_history') = asym_calls']_vars

\* two analyses made, the other three methods called as well, the report last
C19_Witness ==
    /\ asym_calls = 2
    /\ Len(analysis_history) = 2
    /\ analysis_history[2] = asym_return[1]
    /\ btt_return # <<>>
    /\ stats_return # <<>>
    /\ report_return # <<>>
    /\ ~report_return[1].raised
    /\ last_call = "generate_dermatome_report"

(***************************************************************************)
(* Claims on the template and the ROI loop                                 *)
(***************************************************************************)
\* C14: an ROI whose polygon has fewer than 3 vertices is rejected when it is
\* constructed: after any sequence of ROI constructions, add_roi and from_dict
\* calls no template holds an ROI with fewer than 3 vertices, and
\* analyze_template computes no temperature for one.
C14_ThreeVertices ==
    /\ \A i \in 1..Len(template_rois) : Len(template_rois[i].coordinates) >= 3
    /\ mp_status = "done" =>
          \A n \in DOMAIN mp_result.roi_temperatures :
             \E i \in 1..Len(template_rois) :
                /\ template_rois[i].name = n
                /\ Len(template_rois[i].coordinates) >= 3

\* every scaled vertex of ROI i is out of the range of the frame
C16_Outside(i) ==
    LET pts == scale_points(template_rois[i].coordinates, thermal_frame, visible_shape)
    IN  /\ pts # <<>>
        /\ \A k \in 1..Len(pts) :
              \/ pts[k][1] < 0 \/ pts[k][1] >= frame_w(thermal_frame)
              \/ pts[k][2] < 0 \/ pts[k][2] >= frame_h(thermal_frame)

\* C16: an ROI polygon that lies entirely outside the frame bounds (every
\* scaled vertex out of range) captures no pixel in analyze_template, after
\* the scale, truncate, clamp and fill steps: no pixel count and no temperature
\* is recorded under its name, and the analysis does not raise.
C16_OutsideCapturesNothing ==
    mp_status # "idle" =>
        /\ mp_status = "done"
        /\ \A i \in 1..Len(template_rois) :
              (/\ C16_Outside(i)
               /\ \A j \in 1..Len(template_rois) :
                     j # i => template_rois[j].name # template_rois[i].name)
                 => /\ template_rois[i].name \notin DOMAIN roi_pixel_counts
                    /\ template_rois[i].name \notin DOMAIN mp_result.roi_temperatures

(***************************************************************************)
(* Claims on the batch drivers                                             *)
(***************************************************************************)
\* the image_index of the entries of all_results, in order
C17_Indexes == [i \in 1..Len(all_results) |-> all_results[i].image_index]

C17_Increasing(indexes) ==
    \A i \in 1..Len(indexes) : \A j \in 1..Len(indexes) :
        i < j => indexes[i] < indexes[j]

\* C17: in a batch run over N loaded images that is not cancelled, every
\* image is attempted exactly once, in list order; an exception or missing
\* data for one image is counted as a failure and does not stop the loop; at
\* the end successful + failed = N, with exactly one result entry per
\* successful image.
C17_EveryImageOnce ==
    (batch_phase = "done" /\ ~progress_canceled) =>
        LET N == Len(loaded_images)
        IN  /\ attempted = [i \in 1..N |-> i - 1]
            /\ successful + failed = N
            /\ Len(all_results) = successful
            /\ C17_Increasing(C17_Indexes)
            /\ \A i \in 1..Len(all_results) : all_results[i].image_index \in 1..N
            /\ \A k \in 1..N :
                  (loaded_images[k].raises \/ ~loaded_images[k].thermal_data)
                     => \A i \in 1..Len(all_results) : all_results[i].image_index # k

\* a run of three images ended without cancellation: the first raised, the
\* second had no thermal data, the third gave a result
C17_Witness ==
    /\ batch_phase = "done"
    /\ ~progress_canceled
    /\ Len(loaded_images) = 3
    /\ loaded_images[1].raises
    /\ ~loaded_images[2].thermal_data
    /\ successful = 1
    /\ failed = 2
    /\ C17_Indexes = <<3>>

\* C18: the cancellation is seen only between two passes of the loop: once it
\* is seen before image k no image of index k or more is processed or gets an
\* entry, the entries of the images before k stay in the result list, and the
\* result list is at all times in increasing image order.
C18_Cancellation ==
    /\ [](batch_phase \in {"loop", "done"} =>
             /\ attempted = [i \in 1..batch_idx |-> i - 1]
             /\ C17_Increasing(C17_Indexes)
             /\ \A i \in 1..Len(all_results) : all_results[i].image_index <= batch_idx
             /\ (batch_phase = "done" /\ batch_idx < Len(loaded_images))
                   => progress_canceled)
    /\ [][/\ (batch_phase \in {"loop", "done"} /\ batch_runs' = batch_runs) =>
               /\ Len(all_results) <= Len(all_results')
               /\ SubSeq(all_results', 1, Len(all_results)) = all_results
          /\ (batch_phase = "loop" /\ progress_canceled) =>
               /\ batch_phase' = "done"
               /\ batch_idx' = batch_idx
               /\ attempted' = attempted
               /\ all_results' = all_results]_vars

\* a run of three images cancelled after its first image, which gave a result
C18_Witness ==
    /\ batch_phase = "done"
    /\ progress_canceled
    /\ Len(loaded_images) = 3
    /\ batch_idx = 1
    /\ attempted = <<0>>
    /\ C17_Indexes = <<1>>
    /\ batch_results = all_results

(***************************************************************************)
(* Claims on the headache correlation of analyze_btt                       *)
(***************************************************************************)
\* the word that names the region in the label of an asymmetry, in lower case
C21_RegionWord(label) ==
    LET chars == label_chars(label)
        space == CHOOSE i \in 1..Len(chars) :
                    chars[i] = " " /\ \A j \in 1..(i - 1) : chars[j] # " "
    IN  lower(SubSeq(chars, 1, space - 1))

\* a listed asymmetry whose region is named in the reported pain location
C21_Overlap ==
    /\ headache_info # <<>>
    /\ "location" \in DOMAIN headache_info[1]
    /\ \E i \in 1..Len(btt_return[1].asymmetries) :
          contains(C21_RegionWord(btt_return[1].asymmetries[i].regions),
                   lower(headache_info[1]["location"]))

\* C21: with symptom context supplied, the correlation text of analyze_btt has
\* the positive-match note whenever the region of a listed asymmetry overlaps
\* the reported pain location and otherwise the neutral note on non-vascular
\* etiologies, exactly one of the two for every input; with no symptom
\* context (None, or a dict with no entry) headache_correlation is None.
C21_OneNote ==
    btt_return # <<>> =>
        IF headache_info = <<>> \/ DOMAIN headache_info[1] = {}
        THEN btt_return[1].headache_correlation = <<>>
        ELSE /\ btt_return[1].headache_correlation # <<>>
             /\ LET text == btt_return[1].headache_correlation[1]
                IN  /\ text.positive_note = C21_Overlap
                    /\ text.neutral_note = ~C21_Overlap

(***************************************************************************)
(* Claims on the names of the ROIs of a template                           *)
(***************************************************************************)
\* C22: ROI names are unique within a template: after any sequence of add_roi,
\* remove_roi and from_dict operations no two ROIs of the template have the
\* same name, so that remove_roi and get_roi_by_name address the only ROI of
\* a name and analyze_template records one temperature for each ROI that has
\* coordinates.
C22_UniqueNames ==
    /\ \A i \in 1..Len(template_rois) : \A j \in 1..Len(template_rois) :
          i # j => template_rois[i].name # template_rois[j].name
    /\ mp_status = "done" =>
          Cardinality(DOMAIN mp_result.roi_temperatures) =
             Len(SelectSeq(template_rois, LAMBDA r : r.coordinates # <<>>))

(***************************************************************************)
(* Claims on the difference statistics of a temperature map                *)
(***************************************************************************)
\* the (roi1, roi2) entries of the matrix, which get_max_delta_t walks
matrix_entries(comparison_matrix) ==
    UNION {{<<roi1, roi2>> : roi2 \in DOMAIN comparison_matrix[roi1]} :
           roi1 \in DOMAIN comparison_matrix}

\* a plausible slip: the comparison of the running maximum reversed
RECURSIVE max_delta_loop_reversed(_, _, _)
max_delta_loop_reversed(comparison_matrix, entries, max_delta) ==
    IF entries = {} THEN max_delta
    ELSE LET e == CHOOSE x \in entries : TRUE
             delta == comparison_matrix[e[1]][e[2]]
         IN  max_delta_loop_reversed(comparison_matrix, entries \ {e},
                 IF Abs(delta) < max_delta THEN Abs(delta) ELSE max_delta)

\* the loop of get_max_delta_t over the entries still to visit
RECURSIVE max_delta_loop(_, _, _)
max_delta_loop(comparison_matrix, entries, max_delta) ==
    IF entries = {} THEN max_delta
    ELSE LET e == CHOOSE x \in entries : TRUE
             delta == comparison_matrix[e[1]][e[2]]
         IN  max_delta_loop(comparison_matrix, entries \ {e},
                 IF Abs(delta) > max_delta THEN Abs(delta) ELSE max_delta)

\* MultiPointAnalysisResult.get_max_delta_t: the delta of the returned triple
\* (the pair that goes with it depends on the insertion order of the dicts)
get_max_delta_t(comparison_matrix) ==
    max_delta_loop(comparison_matrix, matrix_entries(comparison_matrix), 0)

\* C23: for a temperature map with N >= 2 ROIs, max_delta_t of overall_stats
\* equals temp_range and equals the delta returned by get_max_delta_t; for
\* N = 1 no delta statistic is produced, and for N = 0 the record is empty.
C23_DeltaStats ==
    mp_status = "done" =>
        LET N == Cardinality(DOMAIN mp_result.roi_temperatures)
            stats == mp_result.overall_stats
        IN  /\ N = 0 => DOMAIN stats = {}
            /\ N = 1 => /\ DOMAIN stats # {}
                        /\ stats.max_delta_t = <<>>
            /\ N >= 2 => /\ stats.max_delta_t = <<stats.temp_range>>
                         /\ get_max_delta_t(mp_result.comparison_matrix) =
                               stats.temp_range

\* a map of three ROIs whose temperatures are not all equal has been analysed
C23_Witness ==
    /\ mp_status = "done"
    /\ Cardinality(DOMAIN mp_result.roi_temperatures) >= 3
    /\ mp_result.overall_stats.temp_range > 0
    /\ get_max_delta_t(mp_result.comparison_matrix) =
          mp_result.overall_stats.temp_range

(***************************************************************************)
(* The validation diff against the FLIR export                             *)
(*   core/flir_validator.py    FLIRValidator._create_validation_result     *)
(*   core/flir_html_parser.py  FLIRHTMLParser.create_validation_report     *)
(* Both are run on one matched ROI: its FLIR mean and the system's value.  *)
(* The report line is kept as the status word it ends with (without the    *)
(* pictogram in front of it).                                              *)
(***************************************************************************)
\* what the rest of the program is to the components outside the engine
notExt == <<asymVars, last_call, mpVars, hsVars, bttVars, statsVars, reportVars,
            tplVars, batchVars>>

notVal == <<notExt, editorVars, genVars, manVars, clientVars>>
notEditor == <<notExt, valVars, genVars, manVars, clientVars>>
notClient == <<notExt, valVars, editorVars, genVars, manVars>>

EngineIdle ==
    /\ AsymIdle /\ MpIdle /\ HsIdle
    /\ last_call = "none"
    /\ BttIdle /\ StatsIdle /\ ReportIdle /\ TplIdle /\ BatchIdle

\* the defaults of FLIRValidator.__init__, which the main window passes too
tolerance_ok == 50
tolerance_warning == 100

ValFlirTemps == {3550, 3600}
ValSystemTemps == TempMin..TempMax

_create_validation_result(flir_temp, sys_temp) ==
    LET difference == sys_temp - flir_temp
        abs_diff == Abs(difference)
    IN  [flir_temp |-> flir_temp,
         system_temp |-> sys_temp,
         difference |-> difference,
         status |-> IF abs_diff <= tolerance_ok THEN "ok"
                    ELSE IF abs_diff <= tolerance_warning THEN "warning"
                    ELSE "error"]

\* the status of the line create_validation_report writes for a matched ROI
report_line_status(flir_temp, sys_temp) ==
    LET diff == Abs(flir_temp - sys_temp)
    IN  IF diff < 50 THEN "OK"
        ELSE IF diff < 100 THEN "Leve"
        ELSE "Divergente"

CreateValidationResult ==
    /\ validation_result = <<>>
    /\ validation_result' = <<_create_validation_result(flir_mean_temp, system_temp)>>
    /\ UNCHANGED <<flir_mean_temp, system_temp, report_status, notVal>>

CreateValidationReport ==
    /\ report_status = <<>>
    /\ report_status' = <<report_line_status(flir_mean_temp, system_temp)>>
    /\ UNCHANGED <<flir_mean_temp, system_temp, validation_result, notVal>>

InitValidation ==
    /\ flir_mean_temp \in ValFlirTemps
    /\ system_temp \in ValSystemTemps
    /\ validation_result = <<>>
    /\ report_status = <<>>
    /\ EngineIdle
    /\ EditorIdle /\ GenIdle /\ ManIdle /\ ClientIdle

NextValidation == CreateValidationResult \/ CreateValidationReport

SpecValidation == InitValidation /\ [][NextValidation]_vars

\* the bucket of the validator that a status word of the report stands for
C24_BucketOf(status) ==
    CASE status = "OK" -> "ok"
      [] status = "Leve" -> "warning"
      [] status = "Divergente" -> "error"

\* C24: for every difference d = |system - FLIR| of a matched ROI, 0.5 and
\* 1.0 exactly included, _create_validation_result and
\* create_validation_report assign the same bucket: ok up to 0.5 degrees,
\* warning up to 1.0 degrees, error above.
C24_SameBucket ==
    (validation_result # <<>> /\ report_status # <<>>) =>
        LET d == Abs(system_temp - flir_mean_temp)
            bucket == IF d <= 50 THEN "ok"
                      ELSE IF d <= 100 THEN "warning" ELSE "error"
        IN  /\ validation_result[1].status = bucket
            /\ C24_BucketOf(report_status[1]) = bucket

(***************************************************************************)
(* Claims on what analyze_template records                                 *)
(***************************************************************************)
\* how many pixels of the frame the i-th ROI of the template captures
C25_Captured(i) ==
    IF template_rois[i].coordinates = <<>> THEN 0
    ELSE Len(roi_region(thermal_frame,
                 fillPoly(clamp_points(scale_points(template_rois[i].coordinates,
                                                    thermal_frame, visible_shape),
                                       thermal_frame),
                          thermal_frame)))

\* C25: after analyze_template, roi_temperatures, roi_pixel_counts and
\* comparison_matrix have the same key set, every recorded pixel count is
\* > 0, an ROI with no coordinates or that captured zero pixels appears in
\* none of the three, and every name in the group_rois of a group result is
\* a key of roi_temperatures.
C25_Recorded ==
    mp_status = "done" =>
        LET keys == DOMAIN mp_result.roi_temperatures
        IN  /\ DOMAIN roi_pixel_counts = keys
            /\ DOMAIN mp_result.comparison_matrix = keys
            /\ \A k \in keys : roi_pixel_counts[k] > 0
            /\ \A i \in 1..Len(template_rois) :
                  C25_Captured(i) = 0 => template_rois[i].name \notin keys
            /\ \A g \in 1..Len(mp_result.group_comparisons) :
                  \A j \in 1..Len(mp_result.group_comparisons[g].group_rois) :
                      mp_result.group_comparisons[g].group_rois[j] \in keys

(***************************************************************************)
(* The ROI editor: ui/roi_editor.py, ROICanvas and ROIEditorDialog         *)
(* roi_completed is connected directly, so on_roi_completed runs inside    *)
(* finish_roi.  A polygon is the list of its vertices; the 'type' entry of *)
(* an ROI (the text of the mode combo box) is left out.                    *)
(***************************************************************************)
MaxShapes == 3

\* what the mouse can have drawn when finish_roi is called
EditorShapes ==
    {<< <<0, 0>>, <<4, 0>> >>,
     << <<0, 0>>, <<4, 0>>, <<4, 4>> >>,
     << <<5, 5>>, <<9, 5>>, <<9, 9>>, <<5, 9>> >>}

\* what QInputDialog.getText answers: the text and whether OK was pressed
PromptNames == {"", "ROI 1", "C5"}

\* on_roi_completed(coords), with the answer of the prompt
on_roi_completed(rois, coords, name, ok) ==
    IF ok /\ name # ""
    THEN Append(rois, [name |-> name, coordinates |-> coords])
    ELSE rois

\* ROICanvas.finish_roi() with current_points drawn, and the slot it signals
FinishRoi ==
    /\ Len(completed_rois) < MaxShapes
    /\ \E current_points \in EditorShapes, name \in PromptNames, ok \in BOOLEAN :
          IF Len(current_points) >= 3
          THEN /\ completed_rois' = Append(completed_rois,
                                           [points |-> current_points,
                                            coords |-> current_points])
               /\ editor_rois' = on_roi_completed(editor_rois, current_points, name, ok)
          ELSE UNCHANGED <<completed_rois, editor_rois>>
    /\ UNCHANGED notEditor

\* list.pop(i) of a 0-based index
pop_at(list, i) == SubSeq(list, 1, i) \o SubSeq(list, i + 2, Len(list))

\* remove_selected_roi(): currentRow() is -1 or a row of list_rois
RemoveSelectedRoi ==
    /\ \E current_row \in -1..(Len(editor_rois) - 1) :
          IF current_row >= 0
          THEN /\ editor_rois' = pop_at(editor_rois, current_row)
               /\ completed_rois' = IF current_row < Len(completed_rois)
                                    THEN pop_at(completed_rois, current_row)
                                    ELSE completed_rois
          ELSE UNCHANGED <<completed_rois, editor_rois>>
    /\ UNCHANGED notEditor

\* clear_all_rois(), with the answer to the confirmation
ClearAllRois ==
    /\ \E reply \in {"Yes", "No"} :
          IF reply = "Yes"
          THEN /\ editor_rois' = <<>>
               /\ completed_rois' = <<>>
          ELSE UNCHANGED <<completed_rois, editor_rois>>
    /\ UNCHANGED notEditor

InitEditor ==
    /\ EditorIdle
    /\ EngineIdle
    /\ ValIdle /\ GenIdle /\ ManIdle /\ ClientIdle

NextEditor == FinishRoi \/ RemoveSelectedRoi \/ ClearAllRois

SpecEditor == InitEditor /\ [][NextEditor]_vars

C27_EarlierResultsKept ==
    [][/\ IF batch_phase = "loop" /\ batch_phase' = "done"
          THEN IF successful > 0
               THEN batch_results' = all_results
               ELSE batch_results' = batch_results
          ELSE batch_results' = batch_results
       /\ exam_data' # exam_data =>
             exam_data'[1].batch_results =
                IF batch_results = <<>> THEN <<>> ELSE <<batch_results>>]_vars

\* a second run ended with no success, the results of the first run are still
\* stored and were passed to a report generated after it
C27_Witness ==
    /\ batch_runs = 1
    /\ batch_phase = "done"
    /\ successful = 0
    /\ failed > 0
    /\ all_results = <<>>
    /\ batch_results # <<>>
    /\ exam_data = <<[batch_results |-> <<batch_results>>]>>

(***************************************************************************)
(* Manual processing: MainWindow.process_image on the current image, and   *)
(* process_all_images on the loaded ones, with ROIs named in Portuguese    *)
(* (Esq, Dir) or in English (Right Side, Left Side)                        *)
(***************************************************************************)
ManualRois == {<<>>, BothRois, SideRois}

\* process_image(): the ROI loop and the search for the two sides are those of
\* the batch pass; both found, the fields are filled and analyze_asymmetry runs
process_image(image_data, rois) ==
    IF image_data = <<>> THEN [outcome |-> "no_image", left |-> <<>>, right |-> <<>>]
    ELSE IF rois = <<>> THEN [outcome |-> "no_rois", left |-> <<>>, right |-> <<>>]
    ELSE IF ~image_data[1].thermal_data
    THEN [outcome |-> "no_thermal_data", left |-> <<>>, right |-> <<>>]
    ELSE IF image_data[1].raises THEN [outcome |-> "error", left |-> <<>>, right |-> <<>>]
    ELSE LET found == sides_from(roi_temps_from(rois, 1, image_data[1], <<>>), 1,
                                 [left |-> <<>>, right |-> <<>>])
         IN  IF found.left # <<>> /\ found.right # <<>>
             THEN [outcome |-> "analysed", left |-> found.left, right |-> found.right]
             ELSE [outcome |-> "listed", left |-> found.left, right |-> found.right]

ProcessImage ==
    /\ batch_phase # "loop"
    /\ process_return = <<>>
    /\ LET image_data == IF current_image = 0 THEN <<>>
                         ELSE <<loaded_images[current_image]>>
           r == process_image(image_data, current_rois)
       IN  /\ process_return' = <<r>>
           /\ IF r.outcome = "analysed"
              THEN /\ left_temp' = r.left[1]
                   /\ right_temp' = r.right[1]
                   /\ dermatome' = combo_dermatome
                   /\ analyze_asymmetry(r.left[1], r.right[1], combo_dermatome)
              ELSE UNCHANGED <<asymVars, last_call>>
    /\ UNCHANGED <<batchVars, current_image, mpVars, hsVars, valVars, editorVars, genVars,
                   clientVars, bttVars, statsVars, reportVars, tplVars>>

InitManual ==
    /\ loaded_images \in [1..2 -> ImageChoices]
    /\ current_rois \in ManualRois
    /\ current_image \in 0..2
    /\ process_return = <<>>
    /\ use_same_rois = FALSE
    /\ batch_mode = "manual"
    /\ batch_phase = "idle"
    /\ batch_idx = 0
    /\ progress_canceled = FALSE
    /\ all_results = <<>>
    /\ successful = 0
    /\ failed = 0
    /\ attempted = <<>>
    /\ batch_results = <<>>
    /\ AsymIdle
    /\ last_call = "none"
    /\ MpIdle
    /\ HsIdle
    /\ BttIdle /\ StatsIdle /\ ReportIdle /\ TplIdle
    /\ ValIdle /\ EditorIdle /\ GenIdle /\ ClientIdle

NextManual ==
    \/ ProcessImage
    \/ ProcessAllImages
    \/ CancelPressed
    \/ BatchPass
    \/ BatchEnd

SpecManual == InitManual /\ [][NextManual]_vars

\* the side that the name of an ROI stands for, by the words it contains
C28_SideOfName(name) ==
    LET name_lower == lower(name)
    IN  IF contains(<<"e", "s", "q">>, name_lower) \/ contains(<<"l", "e", "f", "t">>, name_lower)
        THEN "left"
        ELSE IF \/ contains(<<"d", "i", "r">>, name_lower)
                \/ contains(<<"r", "i", "g", "h", "t">>, name_lower)
        THEN "right"
        ELSE "none"

\* the ROIs of the list that stand for a side and have points
C28_Named(rois, side) ==
    SelectSeq(rois, LAMBDA roi : roi.has_points /\ C28_SideOfName(roi.name) = side)

\* the image can be measured and the list has one ROI for each side
C28_OnePerSide(image, rois) ==
    /\ image.thermal_data
    /\ ~image.raises
    /\ Len(C28_Named(rois, "left")) = 1
    /\ Len(C28_Named(rois, "right")) = 1

\* C28: in manual single-image and batch processing, an ROI whose name
\* contains 'dir' or 'right' (and neither 'esq' nor 'left') supplies the
\* right-side temperature and an ROI whose name contains 'esq' or 'left'
\* supplies the left-side temperature, whatever the names; an asymmetry is
\* computed for the image only when both temperatures were found.
C28_SidesByName ==
    /\ (process_return # <<>> /\ current_image # 0) =>
          LET image == loaded_images[current_image]
          IN  /\ C28_OnePerSide(image, current_rois) =>
                    /\ process_return[1].outcome = "analysed"
                    /\ process_return[1].left =
                          <<image.region_mean[C28_Named(current_rois, "left")[1].name]>>
                    /\ process_return[1].right =
                          <<image.region_mean[C28_Named(current_rois, "right")[1].name]>>
              /\ process_return[1].outcome = "analysed" =>
                    /\ process_return[1].left # <<>>
                    /\ process_return[1].right # <<>>
    /\ (batch_phase = "done" /\ ~progress_canceled) =>
          \A k \in 1..Len(loaded_images) :
              LET image == loaded_images[k]
                  rois == IF use_same_rois THEN current_rois ELSE image.rois
              IN  C28_OnePerSide(image, rois) =>
                     \E i \in 1..Len(all_results) :
                         /\ all_results[i].image_index = k
                         /\ all_results[i].left_temp =
                               image.region_mean[C28_Named(rois, "left")[1].name]
                         /\ all_results[i].right_temp =
                               image.region_mean[C28_Named(rois, "right")[1].name]

(***************************************************************************)
(* Claims on the serialization of a template                               *)
(***************************************************************************)
\* C29: AnatomicalTemplate.from_dict(t.to_dict()) yields a template equal to
\* t in name, category, ROI sequence (names, coordinates and types, in
\* order), comparison_groups, created_date and modified_date: loading a
\* template does not change its modified_date.
C29_RoundTrip ==
    mp_status = "idle" => from_dict(to_dict(template), now) = template

(***************************************************************************)
(* The report client: api/claude_client.py, ClaudeClient.generate_report   *)
(* The for loop over the models is a process: one step per iteration.  An  *)
(* APIError is kept as its status code and the text str(e) gives, a list   *)
(* of characters, which is what the code searches.                         *)
(***************************************************************************)
MODEL_SONNET_3_5 == "claude-3-5-sonnet-20241022"
MODEL_SONNET_3_5_OLD == "claude-3-5-sonnet-20240620"
MODEL_HAIKU == "claude-3-5-haiku-20241022"
MODEL_OPUS_3 == "claude-3-opus-20240229"

\* the list built in generate_report; its four entries are distinct, so the
\* removal of duplicates leaves it as it is
models_to_try == <<MODEL_HAIKU, MODEL_SONNET_3_5_OLD, MODEL_SONNET_3_5, MODEL_OPUS_3>>

ModelSet == {models_to_try[i] : i \in 1..Len(models_to_try)}

NotFoundText ==
    <<"4", "0", "4", " ", "n", "o", "t", "_", "f", "o", "u", "n", "d", "_",
      "e", "r", "r", "o", "r">>

PermissionText ==
    <<"4", "0", "3", " ", "p", "e", "r", "m", "i", "s", "s", "i", "o", "n",
      "_", "e", "r", "r", "o", "r">>

RateLimitText ==
    <<"4", "2", "9", " ", "r", "a", "t", "e", "_", "l", "i", "m", "i", "t",
      "_", "e", "r", "r", "o", "r">>

AuthenticationText ==
    <<"4", "0", "1", " ", "a", "u", "t", "h", "e", "n", "t", "i", "c", "a",
      "t", "i", "o", "n", "_", "e", "r", "r", "o", "r", ":", " ", "i", "n",
      "v", "a", "l", "i", "d", " ", "x", "-", "a", "p", "i", "-", "k", "e",
      "y">>

CreditText ==
    <<"4", "0", "0", " ", "i", "n", "v", "a", "l", "i", "d", "_", "r", "e",
      "q", "u", "e", "s", "t", "_", "e", "r", "r", "o", "r", ":", " ", "c",
      "r", "e", "d", "i", "t", " ", "b", "a", "l", "a", "n", "c", "e", " ",
      "i", "s", " ", "t", "o", "o", " ", "l", "o", "w", " ", "t", "o", " ",
      "a", "c", "c", "e", "s", "s", " ", "t", "h", "e", " ", "A", "P", "I">>

\* what messages.create can answer: a response, or one of the errors of the
\* API (model not found, permission denied, rate limit, bad key, no credit)
ApiErrors ==
    {[ok |-> FALSE, status |-> 404, text |-> NotFoundText],
     [ok |-> FALSE, status |-> 403, text |-> PermissionText],
     [ok |-> FALSE, status |-> 429, text |-> RateLimitText],
     [ok |-> FALSE, status |-> 401, text |-> AuthenticationText],
     [ok |-> FALSE, status |-> 400, text |-> CreditText]}

ApiAnswers == {[ok |-> TRUE, status |-> 200, text |-> <<>>]} \cup ApiErrors

ExamTypes == {"dermatome", "btt", "eeg"}

\* the two tests of the except clause that end in `continue`
tries_next(error_str) ==
    \/ contains(<<"4", "0", "4">>, error_str)
    \/ contains(<<"n", "o", "t", "_", "f", "o", "u", "n", "d">>, error_str)
    \/ contains(<<"p", "e", "r", "m", "i", "s", "s", "i", "o", "n">>, lower(error_str))
    \/ contains(<<"a", "c", "c", "e", "s", "s">>, lower(error_str))

\* generate_report up to the loop: an exam type that is not known raises
ClientGenerateReport ==
    /\ client_phase = "idle"
    /\ IF exam_type \in {"dermatome", "btt"}
       THEN client_phase' = "loop"
       ELSE client_phase' = "raised"
    /\ UNCHANGED <<api_answers, exam_type, client_model, client_idx, tried, client_return,
                   notClient>>

\* one iteration of the loop: the call, and the return or the except clause
TryModel ==
    /\ client_phase = "loop"
    /\ client_idx < Len(models_to_try)
    /\ LET model == models_to_try[client_idx + 1]
           answer == api_answers[model]
       IN  /\ tried' = Append(tried, model)
           /\ client_idx' = client_idx + 1
           /\ IF answer.ok
              THEN /\ client_model' = model
                   /\ client_return' = <<[report_text_of |-> model]>>
                   /\ client_phase' = "returned"
              ELSE /\ client_phase' = IF tries_next(answer.text) THEN "loop" ELSE "raised"
                   /\ UNCHANGED <<client_model, client_return>>
    /\ UNCHANGED <<api_answers, exam_type, notClient>>

\* the loop ended without a return: every model failed
AllModelsFailed ==
    /\ client_phase = "loop"
    /\ client_idx = Len(models_to_try)
    /\ client_phase' = "raised"
    /\ UNCHANGED <<api_answers, exam_type, client_model, client_idx, tried, client_return,
                   notClient>>

InitClient ==
    /\ api_answers \in [ModelSet -> ApiAnswers]
    /\ exam_type \in ExamTypes
    /\ client_model \in {MODEL_HAIKU, MODEL_OPUS_3}
    /\ client_phase = "idle"
    /\ client_idx = 0
    /\ tried = <<>>
    /\ client_return = <<>>
    /\ EngineIdle
    /\ ValIdle /\ EditorIdle /\ GenIdle /\ ManIdle

NextClient == ClientGenerateReport \/ TryModel \/ AllModelsFailed

SpecClient == InitClient /\ [][NextClient]_vars

\* the errors after which the next model is to be tried: model not found
\* (404) and permission denied (403)
C30_NotFoundOrPermission(answer) == ~answer.ok /\ answer.status \in {404, 403}

\* once generate_report returned or raised, no further model is tried
C30_NoFurtherModel ==
    client_phase \in {"returned", "raised"} =>
        (tried' = tried /\ client_phase' = client_phase)

\* C30: generate_report tries the candidate models in a fixed order without
\* repeating any, returns the text of the first model that succeeds and
\* records that model as the current one, moves on to the next model only
\* after a not-found (404) or permission/access API error, and raises
\* ClaudeClientError without trying any further model on any other API error
\* or once every model has failed.
C30_Fallback ==
    /\ [](/\ tried = SubSeq(models_to_try, 1, Len(tried))
          /\ \A i \in 1..(Len(tried) - 1) : C30_NotFoundOrPermission(api_answers[tried[i]])
          /\ client_phase = "returned" =>
                /\ tried # <<>>
                /\ api_answers[tried[Len(tried)]].ok
                /\ client_return = <<[report_text_of |-> tried[Len(tried)]]>>
                /\ client_model = tried[Len(tried)]
          /\ (client_phase = "raised" /\ tried # <<>>) =>
                /\ ~api_answers[tried[Len(tried)]].ok
                /\ \/ ~C30_NotFoundOrPermission(api_answers[tried[Len(tried)]])
                   \/ tried = models_to_try)
    /\ [][C30_NoFurtherModel]_vars

====
